---- MODULE Spec2Model ----
(***************************************************************************)
(* Orizon authentication layer: the magic-link token store, the rate       *)
(* limiter, the session store, the GitHub OAuth state handling and the     *)
(* auth endpoints, as state machines over the Redis keys, the in-process   *)
(* OAuth state dict and the LiteLLM gateway's accounts.                    *)
(*                                                                         *)
(* Every coroutine is a process of Procs; each await on the store or on    *)
(* an HTTP peer is one step, so that concurrent requests interleave at     *)
(* exactly the suspension points of the code.  A store call may raise.     *)
(* Time is counted in seconds; a key's ttl is its remaining life, -1 for   *)
(* a key without expiry, as Redis reports it.                              *)
(***************************************************************************)
EXTENDS Integers, Sequences, FiniteSets, TLC

VARIABLES
    req,          \* Procs -> the frame of the coroutine the process runs
    magic,        \* Redis keys orizon:magic:<token> -> hash and ttl
    nextToken,    \* the next value secrets.token_urlsafe hands out
    issued,       \* history: token -> how create_magic_link_token ended
    tage,         \* history: token -> seconds since its store writes ended
    vhist,        \* history: token -> the verify calls that have returned
    ctr,          \* Redis keys ratelimit:<action>:<client_id> -> count and ttl
    rlFocus,      \* the action whose counter the run exercises
    win,          \* history: counter key -> the fixed window the spec describes
    rlfail,       \* history: counter keys a store call of a check raised on
    sessions,     \* Redis keys orizon:session:<token> -> hash and ttl
    nextSess,     \* the next session token secrets.token_urlsafe hands out
    sreturned,    \* history: session tokens create_session has returned
    delReturned,  \* history: session tokens a delete_session call returned for
    delDone,      \* history: those whose DEL reached the store
    oauth_states, \* routes._oauth_states, the in-process dict (its keys)
    peer_states,  \* routes._oauth_states in a second service instance
    nextState,    \* the next value generate_oauth_state hands out
    sage,         \* history: OAuth state -> seconds since github_auth issued it
    accepted,     \* history: OAuth state -> callbacks that passed its check
    accounts,     \* the user ids that exist at the LiteLLM gateway
    nkeys,        \* the virtual keys the gateway has generated so far
    ticks         \* the time steps taken so far

tokVars == <<magic, nextToken, issued, tage, vhist>>
rlVars == <<ctr, rlFocus, win, rlfail>>
sessVars == <<sessions, nextSess, sreturned, delReturned, delDone>>
oauthVars == <<oauth_states, peer_states, nextState, sage, accepted>>
gwVars == <<accounts, nkeys>>
vars == <<req, magic, nextToken, issued, tage, vhist, ctr, rlFocus, win, rlfail,
          sessions, nextSess, sreturned, delReturned, delDone,
          oauth_states, peer_states, nextState, sage, accepted,
          accounts, nkeys, ticks>>

(***************************************************************************)
(* Bounds of the model.                                                    *)
(***************************************************************************)
NumProcs == 2
MaxTokens == 1
\* How far past an action's maximum a counter is driven.
MaxOver == 2
MaxSessions == 1
MaxStates == 1
MaxKeys == 2
MaxTicks == 1
\* The service instances that share the store and the gateway.
NumInstances == 2

Procs == 1..NumProcs
Tokens == 1..MaxTokens
\* Token 0 stands for a string no create_magic_link_token call ever returned.
Presentable == 0..MaxTokens

None == "None"
Truthy(s) == s \notin {None, ""}
Min(a, b) == IF a < b THEN a ELSE b
Max(a, b) == IF a > b THEN a ELSE b

(***************************************************************************)
(* Time: Redis deletes a key once its ttl has run out.                     *)
(***************************************************************************)
ExpireKeys(store, d) ==
    [k \in {x \in DOMAIN store : store[x].ttl = -1 \/ store[x].ttl > d} |->
        IF store[k].ttl = -1 THEN store[k]
        ELSE [store[k] EXCEPT !.ttl = @ - d]]

DropKey(store, k) == [x \in DOMAIN store \ {k} |-> store[x]]

(***************************************************************************)
(* Process frames.                                                         *)
(***************************************************************************)
NoData == [ok |-> FALSE, email |-> None, is_signup |-> FALSE,
           name |-> None, company |-> None]
NoInput == [email |-> None, name |-> None, company |-> None,
            is_signup |-> FALSE]
NoHash == [email |-> None, is_signup |-> "0", name |-> None,
           company |-> None, ttl |-> -1]
\* h: the coroutine, pc: its next step, exc: an exception was caught in it.
NoKey == <<None, None>>
NoResult == [allowed |-> TRUE, remaining |-> 0, reset_seconds |-> 0]
NoSess == [email |-> None, user_id |-> None, virtual_key |-> 0, name |-> None]
\* The state parameter of a callback that carries none.
NoState == -1
\* status/cookie/detail: the HTTP response of an endpoint; st/held/stale: the state a
\* callback carries, whether the dict held it and whether it was older than
\* its 10 minutes on arrival; trace: the steps the handler has started;
\* email/udata/ukey: the resolver's argument and its (user_data, key) result.
\* path/inauth: the path and the Authorization header of the request the
\* middleware received; authz/ctx: the Authorization header and request.state
\* of the request as it stands; fwd: call_next has been called with it.
NoAuthz == [scheme |-> None, cred |-> 0]
NoCtx == [orizon_user |-> FALSE, orizon_email |-> None]
\* keys0: the keys the gateway had generated when the resolver was called;
\* lookup: how its first get_user ended ("found", "notfound", "error");
\* dup: its create_user was refused for an account that exists.
\* body: the AuthResponse of signup and login.
NoBody == [success |-> FALSE, message |-> None, user_id |-> None]
\* retry: the Retry-After header of the response; axes: the checks rate_limit
\* has made for the request, each with its key and its verdict.
NoRetry == -1
\* request: the headers and the peer address the limiter reads the client
\* address from.
NoRequest == [forwarded_for |-> <<>>, real_ip |-> None, client |-> None]
\* failed: the step of complete_github_auth that gave nothing; err: the error
\* parameter of the callback.
\* cleared: the response deletes the session cookie; live/srec: whether the
\* store held the session when the handler read or deleted it, and its record.
\* sres/bres: what a session call returned; afterRet/afterDone: the call
\* started after a delete_session call on its token had returned / had
\* reached the store.
IdleFrame == [h |-> "idle", pc |-> "idle", tok |-> 0, inp |-> NoInput,
              tdata |-> NoHash, tres |-> NoData, exc |-> FALSE,
              key |-> NoKey, current |-> 0, k |-> 0, rl |-> NoResult,
              sinp |-> NoSess, sres |-> NoSess, bres |-> FALSE,
              afterRet |-> FALSE, afterDone |-> FALSE,
              status |-> 0, cookie |-> 0, st |-> NoState, held |-> FALSE,
              stale |-> FALSE, trace |-> <<>>, email |-> None,
              udata |-> FALSE, ukey |-> 0, sent |-> FALSE, detail |-> None,
              cleared |-> FALSE, live |-> FALSE, srec |-> NoSess,
              body |-> NoBody,
              path |-> None, inauth |-> NoAuthz, authz |-> NoAuthz,
              ctx |-> NoCtx, fwd |-> FALSE,
              keys0 |-> 0, lookup |-> None, dup |-> FALSE,
              retry |-> NoRetry, axes |-> <<>>, request |-> NoRequest,
              failed |-> None, err |-> None]

\* The HTTP response: a handler that returns or raises HTTPException.
Respond(f, status) == [f EXCEPT !.pc = "http_ret", !.status = status]

\* Sequential callers: a call starts only when no other call is in flight.
Quiet == \A q \in Procs : req[q].pc = "idle"

(***************************************************************************)
(* tokens.py                                                               *)
(***************************************************************************)
TOKEN_EXPIRY_MINUTES == 15
TokenTTL == TOKEN_EXPIRY_MINUTES * 60

\* The arguments the callers pass: signup with a name and a company, login
\* (no company, an empty name).
TokInputs ==
    { [email |-> "a@x.io", name |-> "Ann", company |-> "Co", is_signup |-> TRUE],
      [email |-> "b@x.io", name |-> "", company |-> None, is_signup |-> FALSE] }

\* token_data as create_magic_link_token builds it (lines 63-72): is_signup
\* becomes "1" or "0", name and company are stored only when truthy.
token_data_of(inp) ==
    [email |-> inp.email,
     is_signup |-> IF inp.is_signup THEN "1" ELSE "0",
     name |-> IF Truthy(inp.name) THEN inp.name ELSE None,
     company |-> IF Truthy(inp.company) THEN inp.company ELSE None,
     ttl |-> -1]

\* (mutation of decode_token_data: the flag is compared with "true")
decode_token_data_mut(h) ==
    [ok |-> TRUE, email |-> h.email, is_signup |-> (h.is_signup = "true"),
     name |-> h.name, company |-> h.company]

\* What verify_magic_link_token returns for a hash it read (lines 122-126).
decode_token_data(h) ==
    [ok |-> TRUE, email |-> h.email, is_signup |-> (h.is_signup = "1"),
     name |-> h.name, company |-> h.company]

\* The metadata create_magic_link_token was given, as verify should return it.
Meta(inp) ==
    [ok |-> TRUE, email |-> inp.email, is_signup |-> inp.is_signup,
     name |-> IF Truthy(inp.name) THEN inp.name ELSE None,
     company |-> IF Truthy(inp.company) THEN inp.company ELSE None]

\* History of the verify calls on one token: whether one has returned, and
\* how many returned data (2 stands for two or more).
NoHist == [done |-> FALSE, redeemed |-> 0, vfail |-> FALSE]

Returned(h, res, raised) ==
    [done |-> TRUE,
     redeemed |-> IF res.ok THEN Min(h.redeemed + 1, 2) ELSE h.redeemed,
     vfail |-> h.vfail \/ raised]

\* create_magic_link_token, line 60: a fresh random token.
create_magic_link_token(p, inp) ==
    /\ req[p].pc = "idle"
    /\ nextToken <= MaxTokens
    /\ req' = [req EXCEPT ![p] = [IdleFrame EXCEPT !.h = "create_token",
                  !.pc = "c_hset", !.tok = nextToken, !.inp = inp]]
    /\ nextToken' = nextToken + 1
    /\ UNCHANGED <<magic, issued, tage, vhist>>
    /\ UNCHANGED <<rlVars, sessVars, oauthVars, gwVars, ticks>>

\* line 79: hset; an exception is caught at line 87 and the token returned.
create_magic_link_token_hset(p) ==
    /\ req[p].pc = "c_hset"
    /\ \/ /\ magic' = (req[p].tok :> token_data_of(req[p].inp)) @@ magic
          /\ req' = [req EXCEPT ![p].pc = "c_expire"]
          /\ UNCHANGED issued
       \/ /\ req' = [req EXCEPT ![p].pc = "c_ret", ![p].exc = TRUE]
          /\ issued' = (req[p].tok :> [inp |-> req[p].inp, written |-> "none"])
                          @@ issued
          /\ UNCHANGED magic
    /\ UNCHANGED <<nextToken, tage, vhist>>
    /\ UNCHANGED <<rlVars, sessVars, oauthVars, gwVars, ticks>>

\* line 80: expire; an exception is caught at line 87 and the token returned.
\* The token's age is counted from here, the end of its store writes.
create_magic_link_token_expire(p) ==
    /\ req[p].pc = "c_expire"
    /\ LET t == req[p].tok IN
       \/ /\ magic' = IF t \in DOMAIN magic
                      THEN [magic EXCEPT ![t].ttl = TokenTTL] ELSE magic
          /\ issued' = (t :> [inp |-> req[p].inp, written |-> "full"]) @@ issued
          /\ req' = [req EXCEPT ![p].pc = "c_ret"]
       \/ /\ magic' = magic
          /\ issued' = (t :> [inp |-> req[p].inp, written |-> "nottl"]) @@ issued
          /\ req' = [req EXCEPT ![p].pc = "c_ret", ![p].exc = TRUE]
    /\ tage' = [tage EXCEPT ![req[p].tok] = 0]
    /\ UNCHANGED <<nextToken, vhist>>
    /\ UNCHANGED <<rlVars, sessVars, oauthVars, gwVars, ticks>>

\* verify_magic_link_token is called with a token string some create call
\* returned, or with one never issued.
verify_magic_link_token(p, t) ==
    /\ req[p].pc = "idle"
    /\ t = 0 \/ t \in DOMAIN issued
    /\ req' = [req EXCEPT ![p] = [IdleFrame EXCEPT !.h = "verify_token_call",
                  !.pc = "v_hgetall", !.tok = t]]
    /\ UNCHANGED <<tokVars, rlVars, sessVars, oauthVars, gwVars, ticks>>

\* line 111: hgetall; lines 113-116: an empty hash returns None; an exception
\* returns None (line 128).
verify_magic_link_token_hgetall(p) ==
    /\ req[p].pc = "v_hgetall"
    /\ LET t == req[p].tok IN
       \/ /\ t \in DOMAIN magic
          /\ req' = [req EXCEPT ![p].pc = "v_delete", ![p].tdata = magic[t]]
          /\ UNCHANGED vhist
       \/ /\ t \notin DOMAIN magic
          /\ req' = [req EXCEPT ![p].pc = "v_ret", ![p].tres = NoData]
          /\ vhist' = [vhist EXCEPT ![t] = Returned(@, NoData, FALSE)]
       \/ /\ req' = [req EXCEPT ![p].pc = "v_ret", ![p].tres = NoData,
                                ![p].exc = TRUE]
          /\ vhist' = [vhist EXCEPT ![t] = Returned(@, NoData, TRUE)]
    /\ UNCHANGED <<magic, nextToken, issued, tage>>
    /\ UNCHANGED <<rlVars, sessVars, oauthVars, gwVars, ticks>>

\* line 119: delete, then lines 122-126: the hash read at line 111 is returned
\* with is_signup as a bool; an exception returns None (line 128).
verify_magic_link_token_delete(p) ==
    /\ req[p].pc = "v_delete"
    /\ LET t == req[p].tok
           data == decode_token_data(req[p].tdata) IN
       \/ /\ magic' = DropKey(magic, t)
          /\ req' = [req EXCEPT ![p].pc = "v_ret", ![p].tres = data,
                                ![p].tdata = NoHash]
          /\ vhist' = [vhist EXCEPT ![t] = Returned(@, data, FALSE)]
       \/ /\ magic' = magic
          /\ req' = [req EXCEPT ![p].pc = "v_ret", ![p].tres = NoData,
                                ![p].tdata = NoHash, ![p].exc = TRUE]
          /\ vhist' = [vhist EXCEPT ![t] = Returned(@, NoData, TRUE)]
    /\ UNCHANGED <<nextToken, issued, tage>>
    /\ UNCHANGED <<rlVars, sessVars, oauthVars, gwVars, ticks>>

(***************************************************************************)
(* ratelimit.py                                                            *)
(***************************************************************************)
\* (max_requests, window_seconds), lines 25-31.
RATE_LIMITS ==
    [login |-> <<5, 60>>, signup |-> <<3, 300>>, magic_link |-> <<3, 60>>,
     oauth |-> <<10, 60>>, default |-> <<30, 60>>]

\* line 100: RATE_LIMITS.get(action, RATE_LIMITS["default"])
RateLimitOf(action) ==
    IF action \in DOMAIN RATE_LIMITS THEN RATE_LIMITS[action]
    ELSE RATE_LIMITS["default"]
MaxRequests(action) == RateLimitOf(action)[1]
WindowSeconds(action) == RateLimitOf(action)[2]

RLActions == {"login", "signup", "magic_link", "oauth", "default"}
ClientIds == {"10.0.0.1"}

\* The window of the specification, kept apart from the counter key: it opens
\* at the first increment, runs window_seconds from the end of that request's
\* store writes, and n counts the increments inside it (as long as no store
\* call on the key has raised; 0 afterwards).
NoWindow == [open |-> FALSE, armed |-> FALSE, age |-> 0, n |-> 0]
WindowOf(key) == IF key \in DOMAIN win THEN win[key] ELSE NoWindow
WindowAfter(key, d) ==
    LET w == win[key] IN
    IF ~(w.open /\ w.armed) THEN w
    ELSE IF w.age + d >= WindowSeconds(key[1]) THEN NoWindow
    ELSE [w EXCEPT !.age = @ + d]

Counted(key, w) ==
    [open |-> TRUE, armed |-> w.open /\ w.armed,
     age |-> IF w.open THEN w.age ELSE 0,
     n |-> IF key \in rlfail THEN 0 ELSE IF w.open THEN w.n + 1 ELSE 1]
Uncounted(key) ==
    [x \in DOMAIN win |-> IF x = key THEN [win[x] EXCEPT !.n = 0] ELSE win[x]]

\* (mutation of allowed_of: the comparison is strict)
allowed_of_mut(current, max_requests) == current < max_requests

\* line 122: allowed = current <= max_requests
allowed_of(current, max_requests) == current <= max_requests

\* (mutation of INCR: the value that was read is written back)
INCR_mut(count) == Max(count, 1)

\* line 110: INCR adds 1 to the count of the key (0 for a missing key) in
\* one store operation and returns the new count.
INCR(count) == count + 1

\* (mutation of first_request: every request sets the expiry)
first_request_mut(current) == current >= 1

\* line 112: current == 1
first_request(current) == current = 1

\* lines 99-104: the limits and the key of a check.
check_rate_limit(p, action, client_id) ==
    /\ req[p].pc = "idle"
    /\ LET key == <<action, client_id>>
           inflight == Cardinality({q \in Procs : req[q].pc = "rl_incr"
                                                  /\ req[q].key = key})
           count == IF key \in DOMAIN ctr THEN ctr[key].count ELSE 0 IN
       /\ count + inflight < MaxRequests(action) + MaxOver
       /\ req' = [req EXCEPT ![p] = [IdleFrame EXCEPT !.h = "check_rate_limit",
                     !.pc = "rl_incr", !.key = key]]
    /\ UNCHANGED <<tokVars, rlVars, sessVars, oauthVars, gwVars, ticks>>

\* (mutation of FailOpen: a store error rejects the request)
FailOpen_mut(p) ==
    [req[p] EXCEPT !.pc = "rl_ret", !.exc = TRUE,
        !.rl = [allowed |-> FALSE, remaining |-> 0, reset_seconds |-> 0]]

\* lines 132-135: return True, max_requests, 0
FailOpen(p) ==
    [req[p] EXCEPT !.pc = "rl_ret", !.exc = TRUE,
        !.rl = [allowed |-> TRUE, remaining |-> MaxRequests(req[p].key[1]),
                reset_seconds |-> 0]]

\* line 110: INCR, atomic in the store; line 132: a RedisError fails open.
check_rate_limit_incr(p) ==
    /\ req[p].pc = "rl_incr"
    /\ LET key == req[p].key
           current == INCR(IF key \in DOMAIN ctr THEN ctr[key].count ELSE 0)
           w == WindowOf(key) IN
       \/ /\ ctr' = IF key \in DOMAIN ctr
                    THEN [ctr EXCEPT ![key].count = current]
                    ELSE (key :> [count |-> 1, ttl |-> -1]) @@ ctr
          /\ win' = (key :> Counted(key, w)) @@ win
          /\ req' = [req EXCEPT ![p].current = current,
                        ![p].k = Counted(key, w).n,
                        ![p].pc = IF first_request(current) THEN "rl_expire"
                                  ELSE "rl_ttl"]
          /\ UNCHANGED rlfail
       \/ /\ req' = [req EXCEPT ![p] = FailOpen(p)]
          /\ rlfail' = rlfail \cup {key}
          /\ win' = Uncounted(key)
          /\ UNCHANGED ctr
    /\ UNCHANGED <<tokVars, rlFocus, sessVars, oauthVars, gwVars, ticks>>

\* lines 112-114: the first request of a window sets the expiry.
check_rate_limit_expire(p) ==
    /\ req[p].pc = "rl_expire"
    /\ LET key == req[p].key IN
       /\ \/ /\ ctr' = IF key \in DOMAIN ctr
                       THEN [ctr EXCEPT ![key].ttl = WindowSeconds(key[1])]
                       ELSE ctr
             /\ req' = [req EXCEPT ![p].pc = "rl_ttl"]
             /\ UNCHANGED rlfail
          \/ /\ req' = [req EXCEPT ![p] = FailOpen(p)]
             /\ rlfail' = rlfail \cup {key}
             /\ UNCHANGED ctr
       /\ win' = [x \in DOMAIN win |->
                    IF x # key THEN win[x]
                    ELSE [win[x] EXCEPT
                            !.armed = @ \/ win[x].open,
                            !.age = IF win[x].open /\ ~win[x].armed THEN 0 ELSE @,
                            !.n = IF key \in rlfail' THEN 0 ELSE @]]
    /\ UNCHANGED <<tokVars, rlFocus, sessVars, oauthVars, gwVars, ticks>>

\* lines 116-130: TTL (-2 for a missing key), then the verdict.
check_rate_limit_ttl(p) ==
    /\ req[p].pc = "rl_ttl"
    /\ LET key == req[p].key
           max_requests == MaxRequests(key[1])
           ttl == IF key \in DOMAIN ctr THEN ctr[key].ttl ELSE -2 IN
       \/ /\ req' = [req EXCEPT ![p].pc = "rl_ret", ![p].rl =
                [allowed |-> allowed_of(req[p].current, max_requests),
                 remaining |-> Max(0, max_requests - req[p].current),
                 reset_seconds |-> Max(ttl, 0)]]
          /\ UNCHANGED rlfail
          /\ UNCHANGED win
       \/ /\ req' = [req EXCEPT ![p] = FailOpen(p)]
          /\ rlfail' = rlfail \cup {key}
          /\ win' = Uncounted(key)
    /\ UNCHANGED <<tokVars, ctr, rlFocus, sessVars, oauthVars, gwVars, ticks>>

\* get_client_ip, lines 68-81: the first entry of X-Forwarded-For, else
\* X-Real-IP, else the peer address, else "unknown".
get_client_ip(request) ==
    IF request.forwarded_for # <<>> THEN request.forwarded_for[1]
    ELSE IF Truthy(request.real_ip) THEN request.real_ip
    ELSE IF request.client # None THEN request.client
    ELSE "unknown"

\* The requests of one client: through a proxy chain, and directly.
Requests ==
    { [forwarded_for |-> <<"10.0.0.1", "10.9.9.9">>, real_ip |-> "10.9.9.9",
       client |-> "10.8.8.8"],
      [forwarded_for |-> <<>>, real_ip |-> None, client |-> "10.0.0.1"] }

\* lines 103-104: client_id = identifier or get_client_ip(request)
key_of(request, action, identifier) ==
    <<action, IF Truthy(identifier) THEN identifier ELSE get_client_ip(request)>>

\* (mutation of lower: the string is left as it is)
lower_mut(email) == email

\* str.lower() on the email strings of the model.
lower(email) ==
    IF email = "A@x.io" THEN "a@x.io"
    ELSE IF email = "B@x.io" THEN "b@x.io"
    ELSE email

\* line 201: f"{action}:email"
email_action(action) == action \o ":email"

\* rate_limit calls check_rate_limit (line 152).
EnterCheck(f, key) ==
    [f EXCEPT !.pc = "rl_incr", !.key = key, !.current = 0, !.k = 0,
              !.rl = NoResult, !.exc = FALSE]

\* The INCR calls on a key that requests under way will still make.
ToCome(key) ==
    Cardinality({q \in Procs :
        \/ req[q].pc = "rl_incr" /\ req[q].key = key
        \/ /\ req[q].h = "rate_limit_by_email" /\ req[q].axes = <<>>
           /\ req[q].pc \in {"rl_incr", "rl_expire", "rl_ttl", "rl_ret"}
           /\ key_of(req[q].request, email_action(req[q].key[1]),
                     lower(req[q].email)) = key})
\* A counter is driven at most MaxOver past the maximum of its action.
Room(key) ==
    (IF key \in DOMAIN ctr THEN ctr[key].count ELSE 0) + ToCome(key)
        < MaxRequests(key[1]) + MaxOver

\* rate_limit, line 152: the check on the key of the action.
rate_limit(p, request, action, identifier) ==
    /\ req[p].pc = "idle"
    /\ Room(key_of(request, action, identifier))
    /\ req' = [req EXCEPT ![p] = EnterCheck(
                  [IdleFrame EXCEPT !.h = "rate_limit"],
                  key_of(request, action, identifier))]
    /\ UNCHANGED <<tokVars, rlVars, sessVars, oauthVars, gwVars, ticks>>

\* rate_limit_by_email, line 200: rate_limit on the client address first.
rate_limit_by_email(p, request, email, action) ==
    /\ req[p].pc = "idle"
    /\ Room(key_of(request, action, None))
    /\ Room(key_of(request, email_action(action), lower(email)))
    /\ req' = [req EXCEPT ![p] = EnterCheck(
                  [IdleFrame EXCEPT !.h = "rate_limit_by_email",
                                    !.request = request, !.email = email],
                  key_of(request, action, None))]
    /\ UNCHANGED <<tokVars, rlVars, sessVars, oauthVars, gwVars, ticks>>

\* What a check has given, as rate_limit sees it.
AxisOf(f) == [key |-> f.key, allowed |-> f.rl.allowed, exc |-> f.exc,
              current |-> f.current]

\* rate_limit, lines 156-181: HTTPException 429 with Retry-After when the
\* check did not allow; else rate_limit returns, and rate_limit_by_email goes
\* on to the check on the lower-cased email (line 201) or returns.
rate_limit_verdict(p) ==
    /\ req[p].h \in {"rate_limit", "rate_limit_by_email"}
    /\ req[p].pc = "rl_ret"
    /\ LET f == [req[p] EXCEPT !.axes = Append(@, AxisOf(req[p]))] IN
       req' = [req EXCEPT ![p] =
          IF ~req[p].rl.allowed
          THEN Respond([f EXCEPT !.retry = req[p].rl.reset_seconds,
                                 !.detail = "Too many requests"], 429)
          ELSE IF req[p].h = "rate_limit_by_email" /\ req[p].axes = <<>>
          THEN EnterCheck(f, key_of(req[p].request,
                                    email_action(req[p].key[1]),
                                    lower(req[p].email)))
          ELSE [f EXCEPT !.pc = "rl_done"]]
    /\ UNCHANGED <<tokVars, rlVars, sessVars, oauthVars, gwVars, ticks>>

\* The endpoint goes on after the limiter, or the 429 has been sent.
rate_limit_return(p) ==
    /\ req[p].h \in {"rate_limit", "rate_limit_by_email"}
    /\ req[p].pc \in {"rl_done", "http_ret"}
    /\ req' = [req EXCEPT ![p] = IdleFrame]
    /\ UNCHANGED <<tokVars, rlVars, sessVars, oauthVars, gwVars, ticks>>

(***************************************************************************)
(* oauth.py                                                                *)
(***************************************************************************)
OAUTH_STATE_EXPIRY_SECONDS == 600

(***************************************************************************)
(* sessions.py                                                             *)
(***************************************************************************)
SESSION_EXPIRY_HOURS == 24
SessionTTL == SESSION_EXPIRY_HOURS * 3600

SessTokens == 1..MaxSessions
\* The arguments verify_token and github_callback pass to create_session.
SessInputs ==
    { [email |-> "a@x.io", user_id |-> "orizon-a", virtual_key |-> 1,
       name |-> "Ann"],
      [email |-> "b@x.io", user_id |-> "orizon-b", virtual_key |-> 2,
       name |-> None] }

\* session_data as create_session builds it (lines 65-73).
session_data_of(inp) ==
    [email |-> inp.email, user_id |-> inp.user_id,
     virtual_key |-> inp.virtual_key,
     name |-> IF Truthy(inp.name) THEN inp.name ELSE None, ttl |-> -1]

\* What hgetall gives back for a session hash.
session_of(h) ==
    [email |-> h.email, user_id |-> h.user_id, virtual_key |-> h.virtual_key,
     name |-> h.name]

\* The store holds at most MaxSessions session records: a write of a further
\* one raises, as any store call may.
\* create_session, line 62: a fresh random session token.
create_session(p, inp) ==
    /\ req[p].pc = "idle"
    /\ nextSess <= MaxSessions
    /\ req' = [req EXCEPT ![p] = [IdleFrame EXCEPT !.h = "create_session",
                  !.pc = "s_hset", !.tok = nextSess, !.sinp = inp]]
    /\ nextSess' = nextSess + 1
    /\ UNCHANGED <<tokVars, rlVars, sessions, sreturned, delReturned, delDone>>
    /\ UNCHANGED <<oauthVars, gwVars, ticks>>

\* line 80: hset; an exception is logged and raised again (lines 88-90).
create_session_hset(p) ==
    /\ req[p].pc = "s_hset"
    /\ \/ /\ req[p].tok \in SessTokens
          /\ sessions' = (req[p].tok :> session_data_of(req[p].sinp)) @@ sessions
          /\ req' = [req EXCEPT ![p].pc = "s_expire"]
       \/ /\ req' = [req EXCEPT ![p].pc = "s_raise", ![p].exc = TRUE]
          /\ UNCHANGED sessions
    /\ UNCHANGED <<tokVars, rlVars, nextSess, sreturned, delReturned, delDone>>
    /\ UNCHANGED <<oauthVars, gwVars, ticks>>

\* line 81: expire, then the token is returned; an exception is raised again.
create_session_expire(p) ==
    /\ req[p].pc = "s_expire"
    /\ LET s == req[p].tok IN
       \/ /\ sessions' = IF s \in DOMAIN sessions
                         THEN [sessions EXCEPT ![s].ttl = SessionTTL]
                         ELSE sessions
          /\ req' = [req EXCEPT ![p].pc = "s_ret"]
          /\ sreturned' = sreturned \cup {s}
       \/ /\ req' = [req EXCEPT ![p].pc = "s_raise", ![p].exc = TRUE]
          /\ UNCHANGED <<sessions, sreturned>>
    /\ UNCHANGED <<tokVars, rlVars, nextSess, delReturned, delDone>>
    /\ UNCHANGED <<oauthVars, gwVars, ticks>>

\* A session call is made with a token create_session returned (the cookie),
\* or with a string that is no session token (0).
Callable(s) == s = 0 \/ s \in sreturned

\* get_session, lines 102-117: hgetall; an empty hash or an exception gives None.
get_session(p, s) ==
    /\ req[p].pc = "idle"
    /\ Callable(s)
    /\ \/ req' = [req EXCEPT ![p] = [IdleFrame EXCEPT !.h = "get_session",
                     !.pc = "s_ret", !.tok = s,
                     !.afterRet = s \in delReturned, !.afterDone = s \in delDone,
                     !.sres = IF s \in DOMAIN sessions
                              THEN session_of(sessions[s]) ELSE NoSess]]
       \/ req' = [req EXCEPT ![p] = [IdleFrame EXCEPT !.h = "get_session",
                     !.pc = "s_ret", !.tok = s, !.exc = TRUE,
                     !.afterRet = s \in delReturned, !.afterDone = s \in delDone]]
    /\ UNCHANGED <<tokVars, rlVars, sessVars, oauthVars, gwVars, ticks>>

\* delete_session, lines 129-141: delete; True when a key was removed, False
\* when none was or when the store call raised.
delete_session(p, s) ==
    /\ req[p].pc = "idle"
    /\ Callable(s)
    /\ \/ /\ sessions' = DropKey(sessions, s)
          /\ req' = [req EXCEPT ![p] = [IdleFrame EXCEPT !.h = "delete_session",
                        !.pc = "s_ret", !.tok = s,
                        !.bres = s \in DOMAIN sessions]]
          /\ delDone' = delDone \cup {s}
       \/ /\ req' = [req EXCEPT ![p] = [IdleFrame EXCEPT !.h = "delete_session",
                        !.pc = "s_ret", !.tok = s, !.exc = TRUE]]
          /\ UNCHANGED <<sessions, delDone>>
    /\ delReturned' = delReturned \cup {s}
    /\ UNCHANGED <<tokVars, rlVars, nextSess, sreturned>>
    /\ UNCHANGED <<oauthVars, gwVars, ticks>>

\* (mutation of refreshed: the expiry is written with a call that creates the key)
refreshed_mut(store, s) ==
    IF s \in DOMAIN store THEN [store EXCEPT ![s].ttl = SessionTTL]
    ELSE (s :> [session_data_of(NoSess) EXCEPT !.ttl = SessionTTL]) @@ store

\* line 157: EXPIRE sets the ttl of an existing key and does nothing otherwise.
refreshed(store, s) ==
    IF s \in DOMAIN store THEN [store EXCEPT ![s].ttl = SessionTTL] ELSE store

\* refresh_session, lines 153-165: expire; its result, or False on an exception.
refresh_session(p, s) ==
    /\ req[p].pc = "idle"
    /\ Callable(s)
    /\ \/ /\ sessions' = refreshed(sessions, s)
          /\ req' = [req EXCEPT ![p] = [IdleFrame EXCEPT !.h = "refresh_session",
                        !.pc = "s_ret", !.tok = s,
                        !.bres = s \in DOMAIN sessions]]
       \/ /\ req' = [req EXCEPT ![p] = [IdleFrame EXCEPT !.h = "refresh_session",
                        !.pc = "s_ret", !.tok = s, !.exc = TRUE]]
          /\ UNCHANGED sessions
    /\ UNCHANGED <<tokVars, rlVars, nextSess, sreturned, delReturned, delDone>>
    /\ UNCHANGED <<oauthVars, gwVars, ticks>>

SessReturn(p) ==
    /\ req[p].h \in {"create_session", "get_session", "delete_session",
                     "refresh_session"}
    /\ req[p].pc \in {"s_ret", "s_raise"}
    /\ req' = [req EXCEPT ![p] = IdleFrame]
    /\ UNCHANGED <<tokVars, rlVars, sessVars, oauthVars, gwVars, ticks>>

(***************************************************************************)
(* utils.py: the account resolver over the LiteLLM gateway.                *)
(***************************************************************************)
\* hashlib.sha256(s.encode()).hexdigest()[:12] on the strings of the model:
\* strings that differ, also in letter case only, have different digests.
sha256_12(s) ==
    IF s = "a@x.io" THEN "a"
    ELSE IF s = "b@x.io" THEN "b"
    ELSE IF s = "A@x.io" THEN "c"
    ELSE IF s = "B@x.io" THEN "d"
    ELSE "0"

\* (mutation of generate_user_id: the email is hashed as it is written)
generate_user_id_mut(email) == "orizon-" \o sha256_12(email)

\* generate_user_id, lines 92-104: "orizon-" and the digest prefix of the
\* lower-cased email.
generate_user_id(email) == "orizon-" \o sha256_12(lower(email))

\* A handler calls get_or_create_user_key(email), lines 304-307.
EnterResolver(f, email) ==
    [f EXCEPT !.pc = "u_get", !.email = email, !.trace = Append(@, "resolve"),
              !.keys0 = nkeys]

\* (mutation of new_key: the value of a key the account already has)
new_key_mut(generated) == generated

\* The key the gateway answers /key/generate and /user/new with when it has
\* generated that many keys before: a new one.
new_key(generated) == generated + 1

\* lines 307-309: get_user; a 404, another status and a transport error all
\* give None (get_user, lines 126-138).
get_or_create_user_key_get(p) ==
    /\ req[p].pc = "u_get"
    /\ \/ /\ generate_user_id(req[p].email) \in accounts
          /\ req' = [req EXCEPT ![p].pc = "u_key", ![p].udata = TRUE,
                                ![p].lookup = "found"]
       \/ /\ generate_user_id(req[p].email) \notin accounts
          /\ req' = [req EXCEPT ![p].pc = "u_create", ![p].lookup = "notfound"]
       \/ req' = [req EXCEPT ![p].pc = "u_create", ![p].lookup = "error"]
    /\ UNCHANGED <<tokVars, rlVars, sessVars, oauthVars, gwVars, ticks>>

\* lines 320-321: create_key_for_user for the account found; the gateway
\* generates a key, or the call gives None.
get_or_create_user_key_key(p) ==
    /\ req[p].pc = "u_key"
    /\ \/ /\ nkeys < MaxKeys
          /\ nkeys' = nkeys + 1
          /\ req' = [req EXCEPT ![p].pc = "u_ret", ![p].ukey = new_key(nkeys)]
       \/ /\ req' = [req EXCEPT ![p].pc = "u_ret", ![p].ukey = 0]
          /\ UNCHANGED nkeys
    /\ UNCHANGED <<tokVars, rlVars, sessVars, oauthVars, accounts, ticks>>

\* lines 324-333: create_user; the gateway creates the account with a key, or
\* the call gives None and the resolver returns (None, None).
get_or_create_user_key_create(p) ==
    /\ req[p].pc = "u_create"
    /\ LET uid == generate_user_id(req[p].email) IN
       \/ /\ uid \notin accounts
          /\ nkeys < MaxKeys
          /\ accounts' = accounts \cup {uid}
          /\ nkeys' = nkeys + 1
          /\ req' = [req EXCEPT ![p].pc = "u_reget", ![p].ukey = new_key(nkeys)]
       \/ /\ req' = [req EXCEPT ![p].pc = "u_ret", ![p].udata = FALSE,
                                ![p].ukey = 0, ![p].dup = uid \in accounts]
          /\ UNCHANGED <<accounts, nkeys>>
    /\ UNCHANGED <<tokVars, rlVars, sessVars, oauthVars, ticks>>

\* lines 330-331: get_user again; its result goes back with the new key.
get_or_create_user_key_reget(p) ==
    /\ req[p].pc = "u_reget"
    /\ \/ /\ generate_user_id(req[p].email) \in accounts
          /\ req' = [req EXCEPT ![p].pc = "u_ret", ![p].udata = TRUE]
       \/ req' = [req EXCEPT ![p].pc = "u_ret", ![p].udata = FALSE]
    /\ UNCHANGED <<tokVars, rlVars, sessVars, oauthVars, gwVars, ticks>>

\* get_user, create_user and create_key_for_user catch httpx.RequestError
\* only (lines 135, 176, 251): any other exception of the HTTP call, or of
\* decoding its answer, leaves get_or_create_user_key.
get_or_create_user_key_raise(p) ==
    /\ req[p].pc \in {"u_get", "u_key", "u_create", "u_reget"}
    /\ req' = [req EXCEPT ![p].pc = "u_raise", ![p].exc = TRUE,
                          ![p].udata = FALSE, ![p].ukey = 0]
    /\ UNCHANGED <<tokVars, rlVars, sessVars, oauthVars, gwVars, ticks>>

\* A direct call of get_or_create_user_key; the gateway lower-cases nothing,
\* generate_user_id does.
ResolverEmails == {"a@x.io", "A@x.io"}

get_or_create_user_key(p, email) ==
    /\ req[p].pc = "idle"
    /\ req' = [req EXCEPT ![p] = EnterResolver(
                  [IdleFrame EXCEPT !.h = "get_or_create_user_key"], email)]
    /\ UNCHANGED <<tokVars, rlVars, sessVars, oauthVars, gwVars, ticks>>

\* The caller takes (user_data, key), or the exception.
get_or_create_user_key_return(p) ==
    /\ req[p].h = "get_or_create_user_key"
    /\ req[p].pc \in {"u_ret", "u_raise"}
    /\ req' = [req EXCEPT ![p] = IdleFrame]
    /\ UNCHANGED <<tokVars, rlVars, sessVars, oauthVars, gwVars, ticks>>

(***************************************************************************)
(* middleware.py                                                           *)
(***************************************************************************)
\* "Bearer <key>"
Bearer(key) == [scheme |-> "Bearer", cred |-> key]
\* The Authorization header of a client: none, or a bearer key of its own
\* (0, a key the gateway did not generate in any of these requests).
ClientAuthz == {NoAuthz, Bearer(0)}

Paths == {"/health", "/healthz", "/openapi.json", "/v1/chat/completions"}

\* (mutation of SkipAuth: no path is skipped)
SkipAuth_mut(path) == path = None

\* line 52: the path starts with one of SKIP_AUTH_PATHS (lines 38-44).
SkipAuth(path) == path \in {"/health", "/healthz", "/openapi.json"}

\* get_user_email, utils.py lines 37-40: X-Auth-Request-Email or X-Email.
get_user_email(xauth, xemail) == IF Truthy(xauth) THEN xauth ELSE xemail

\* (mutation of injected: the header is written whatever the key is)
injected_mut(authz, virtual_key) == Bearer(virtual_key)

\* lines 66-70: the Authorization header after the resolver's answer.
injected(authz, virtual_key) ==
    IF virtual_key # 0 THEN Bearer(virtual_key) ELSE authz

\* dispatch, lines 52-64 and 84-93: an allow-listed path and a request without
\* an email header go to call_next as they are; otherwise the resolver is
\* called with the email.
dispatch(p, path, xauth, xemail, authz) ==
    /\ req[p].pc = "idle"
    /\ LET f == [IdleFrame EXCEPT !.h = "dispatch", !.path = path,
                    !.inauth = authz, !.authz = authz,
                    !.email = IF Truthy(get_user_email(xauth, xemail))
                              THEN get_user_email(xauth, xemail) ELSE None] IN
       req' = [req EXCEPT ![p] =
                  IF SkipAuth(path) \/ ~Truthy(get_user_email(xauth, xemail))
                  THEN [f EXCEPT !.pc = "mw_next", !.fwd = TRUE]
                  ELSE EnterResolver(f, get_user_email(xauth, xemail))]
    /\ UNCHANGED <<tokVars, rlVars, sessVars, oauthVars, gwVars, ticks>>

\* lines 64-82, 93: with a key the header and request.state are written;
\* without one, and after an exception, nothing is; then call_next.
dispatch_inject(p) ==
    /\ req[p].h = "dispatch" /\ req[p].pc \in {"u_ret", "u_raise"}
    /\ req' = [req EXCEPT ![p] = [@ EXCEPT !.pc = "mw_next", !.fwd = TRUE,
                  !.authz = IF req[p].pc = "u_ret"
                            THEN injected(@, req[p].ukey) ELSE @,
                  !.ctx = IF req[p].pc = "u_ret" /\ req[p].ukey # 0
                          THEN [orizon_user |-> req[p].udata,
                                orizon_email |-> req[p].email]
                          ELSE @]]
    /\ UNCHANGED <<tokVars, rlVars, sessVars, oauthVars, gwVars, ticks>>

\* line 94: the response of the next handler goes back to the client.
dispatch_return(p) ==
    /\ req[p].h = "dispatch" /\ req[p].pc = "mw_next"
    /\ req' = [req EXCEPT ![p] = IdleFrame]
    /\ UNCHANGED <<tokVars, rlVars, sessVars, oauthVars, gwVars, ticks>>

(***************************************************************************)
(* routes.py                                                               *)
(***************************************************************************)
SignupBody == [email |-> "a@x.io", name |-> "Ann", company |-> "Co",
               is_signup |-> TRUE]
LoginBody == [email |-> "b@x.io", name |-> None, company |-> None,
              is_signup |-> FALSE]

\* (mutation of resolved: the key is not looked at)
resolved_mut(user_data, virtual_key) == user_data

\* verify_token line 231, github_callback line 352: the negation of
\* "not user_data or not virtual_key".
resolved(user_data, virtual_key) == user_data /\ virtual_key # 0

\* The requests that will still draw a magic-link token.
TokenPending ==
    {q \in Procs : req[q].h \in {"signup", "login"}
                   /\ req[q].pc \in {"u_get", "u_key", "u_create", "u_reget",
                                     "u_ret", "u_raise", "l_get"}}
TokenLeft == nextToken + Cardinality(TokenPending) <= MaxTokens

\* (mutation of EnterCreateSession: the session gets a key from before the request)
EnterCreateSession_mut(f, name) ==
    [f EXCEPT !.pc = "s_hset", !.tok = nextSess, !.trace = Append(@, "session"),
        !.sinp = [email |-> f.email, user_id |-> generate_user_id(f.email),
                  virtual_key |-> f.keys0, name |-> name]]

\* A handler calls create_session, lines 62-73; past MaxSessions every fresh
\* token is the one the store refuses to write.
EnterCreateSession(f, name) ==
    [f EXCEPT !.pc = "s_hset", !.tok = nextSess, !.trace = Append(@, "session"),
        !.sinp = [email |-> f.email, user_id |-> generate_user_id(f.email),
                  virtual_key |-> f.ukey, name |-> name]]

\* signup, lines 110-113: the resolver is called first, with body.email.
signup_as(p, body) ==
    /\ req[p].pc = "idle"
    /\ TokenLeft
    /\ req' = [req EXCEPT ![p] = EnterResolver(
                  [IdleFrame EXCEPT !.h = "signup", !.inp = body],
                  body.email)]
    /\ UNCHANGED <<tokVars, rlVars, sessVars, oauthVars, gwVars, ticks>>

signup(p) == signup_as(p, SignupBody)

\* The same signup with the email written in lower and in upper case.
SignupBodies == {SignupBody, [SignupBody EXCEPT !.email = "A@x.io"]}

\* lines 115-127: 500 without user_data, else create_magic_link_token; an
\* exception of the resolver is answered 500 too (lines 149-154).
signup_token(p) ==
    /\ req[p].h = "signup" /\ req[p].pc \in {"u_ret", "u_raise"}
    /\ \/ /\ ~req[p].udata
          /\ req' = [req EXCEPT ![p] = Respond(@, 500)]
          /\ UNCHANGED nextToken
       \/ /\ req[p].udata
          /\ req' = [req EXCEPT ![p].pc = "c_hset", ![p].tok = nextToken,
                                ![p].trace = Append(@, "token")]
          /\ nextToken' = nextToken + 1
    /\ UNCHANGED <<magic, issued, tage, vhist>>
    /\ UNCHANGED <<rlVars, sessVars, oauthVars, gwVars, ticks>>

\* (mutation of signup_response: a failed send is reported)
signup_response_mut(email_sent, user_id) ==
    [success |-> email_sent,
     message |-> IF email_sent THEN "Check your email for the magic link"
                 ELSE "Could not send the magic link",
     user_id |-> user_id]

\* signup, lines 137-145: email_sent is logged when false; the AuthResponse
\* does not depend on it.
signup_response(email_sent, user_id) ==
    [success |-> TRUE, message |-> "Check your email for the magic link",
     user_id |-> user_id]

\* lines 130-145: the email is sent or not (send_email returns a bool, catches
\* every exception of the transport and does not suspend), then the response.
signup_send(p) ==
    /\ req[p].h = "signup" /\ req[p].pc = "c_ret"
    /\ \E sent \in BOOLEAN :
        req' = [req EXCEPT ![p] = Respond([@ EXCEPT !.sent = sent,
                   !.trace = Append(@, "send"),
                   !.body = signup_response(sent,
                               generate_user_id(req[p].inp.email))], 200)]
    /\ UNCHANGED <<tokVars, rlVars, sessVars, oauthVars, gwVars, ticks>>

\* login, lines 167-170: get_user is called first.
login(p) ==
    /\ req[p].pc = "idle"
    /\ TokenLeft
    /\ req' = [req EXCEPT ![p] = [IdleFrame EXCEPT !.h = "login",
                  !.pc = "l_get", !.inp = LoginBody, !.email = LoginBody.email]]
    /\ UNCHANGED <<tokVars, rlVars, sessVars, oauthVars, gwVars, ticks>>

\* lines 170-181: whatever get_user gave, a token is created.
login_token(p) ==
    /\ req[p].h = "login" /\ req[p].pc = "l_get"
    /\ \E found \in {FALSE, generate_user_id(req[p].email) \in accounts} :
        req' = [req EXCEPT ![p].pc = "c_hset", ![p].tok = nextToken,
                           ![p].udata = found, ![p].trace = Append(@, "token")]
    /\ nextToken' = nextToken + 1
    /\ UNCHANGED <<magic, issued, tage, vhist>>
    /\ UNCHANGED <<rlVars, sessVars, oauthVars, gwVars, ticks>>

\* (mutation of login_response: an unknown account gets its own message)
login_response_mut(user_data) ==
    [success |-> user_data,
     message |-> IF user_data THEN "Check your email for the magic link"
                 ELSE "No account for this email",
     user_id |-> None]

\* login, lines 194-197: the AuthResponse, built without looking at user_data.
login_response(user_data) ==
    [success |-> TRUE, message |-> "Check your email for the magic link",
     user_id |-> None]

\* (mutation of login_sends: the email is sent whatever get_user gave)
login_sends_mut(user_data) == TRUE

\* login, line 184: if user_data
login_sends(user_data) == user_data

\* lines 184-197: send_magic_link_email is called for an account that
\* get_user found, and the transport delivers the email or does not.
login_send(p) ==
    /\ req[p].h = "login" /\ req[p].pc = "c_ret"
    /\ \E sent \in {FALSE, login_sends(req[p].udata)} :
        req' = [req EXCEPT ![p] = Respond([@ EXCEPT !.sent = sent,
                   !.trace = IF login_sends(req[p].udata)
                             THEN Append(@, "send") ELSE @,
                   !.body = login_response(req[p].udata)], 200)]
    /\ UNCHANGED <<tokVars, rlVars, sessVars, oauthVars, gwVars, ticks>>

\* verify_token, line 217: verify_magic_link_token is called first, with a
\* token string some create call returned or with one never issued.
verify_token(p, t) ==
    /\ req[p].pc = "idle"
    /\ t = 0 \/ t \in DOMAIN issued
    /\ req' = [req EXCEPT ![p] = [IdleFrame EXCEPT !.h = "verify_token",
                  !.pc = "v_hgetall", !.tok = t,
                  !.trace = <<"redeem">>]]
    /\ UNCHANGED <<tokVars, rlVars, sessVars, oauthVars, gwVars, ticks>>

\* (mutation of InvalidToken: a token that was issued gets its own message)
InvalidToken_mut(f) ==
    Respond([f EXCEPT !.detail = IF f.tok \in DOMAIN issued
                                 THEN "Magic link expired or already used"
                                 ELSE "Invalid magic link"], 400)

\* lines 219-223: HTTPException(400, "Invalid or expired magic link")
InvalidToken(f) ==
    Respond([f EXCEPT !.detail = "Invalid or expired magic link"], 400)

\* lines 219-229: 400 without token data, else the resolver.
verify_token_resolve(p) ==
    /\ req[p].h = "verify_token" /\ req[p].pc = "v_ret"
    /\ req' = [req EXCEPT ![p] =
                  IF req[p].tres.ok THEN EnterResolver(@, req[p].tres.email)
                  ELSE InvalidToken(@)]
    /\ UNCHANGED <<tokVars, rlVars, sessVars, oauthVars, gwVars, ticks>>

\* lines 231-244: 500 without user_data or key, else create_session; an
\* exception of the resolver is answered 500 too (lines 258-263).
verify_token_session(p) ==
    /\ req[p].h = "verify_token" /\ req[p].pc \in {"u_ret", "u_raise"}
    /\ \/ /\ ~resolved(req[p].udata, req[p].ukey)
          /\ req' = [req EXCEPT ![p] = Respond(@, 500)]
          /\ UNCHANGED nextSess
       \/ /\ resolved(req[p].udata, req[p].ukey)
          /\ req' = [req EXCEPT ![p] = EnterCreateSession(@, req[p].tres.name)]
          /\ nextSess' = Min(nextSess + 1, MaxSessions + 1)
    /\ UNCHANGED <<sessions, sreturned, delReturned, delDone>>
    /\ UNCHANGED <<tokVars, rlVars, oauthVars, gwVars, ticks>>

\* lines 247-263: the cookie and 200, or 500 when create_session raised.
verify_token_respond(p) ==
    /\ req[p].h = "verify_token" /\ req[p].pc \in {"s_ret", "s_raise"}
    /\ req' = [req EXCEPT ![p] =
                  IF req[p].pc = "s_ret"
                  THEN Respond([@ EXCEPT !.cookie = req[p].tok], 200)
                  ELSE Respond(@, 500)]
    /\ UNCHANGED <<tokVars, rlVars, sessVars, oauthVars, gwVars, ticks>>

\* (mutation of state_held: every state passes the check)
state_held_mut(states, state) == state = state

\* github_callback, line 330: state in _oauth_states
state_held(states, state) == state \in states

\* (mutation of consumed: the state is left in the dict)
consumed_mut(states, state) == states \cup {state}

\* line 335: del _oauth_states[state]
consumed(states, state) == states \ {state}

\* Each service instance is a process of its own with its own module-level
\* _oauth_states (line 283): instance 1 has oauth_states, instance 2
\* peer_states.
Instances == 1..NumInstances
StatesAt(i) == IF i = 1 THEN oauth_states ELSE peer_states
SetStatesAt(i, states) ==
    IF i = 1 THEN oauth_states' = states /\ UNCHANGED peer_states
    ELSE peer_states' = states /\ UNCHANGED oauth_states

\* github_auth, lines 293-302, on instance i: a fresh state is put into the
\* dict of the instance and sent to the browser in the redirect; the handler
\* has no suspension point.
github_auth_on(p, i) ==
    /\ req[p].pc = "idle"
    /\ nextState <= MaxStates
    /\ SetStatesAt(i, StatesAt(i) \cup {nextState})
    /\ sage' = (nextState :> 0) @@ sage
    /\ nextState' = nextState + 1
    /\ UNCHANGED <<req, accepted>>
    /\ UNCHANGED <<tokVars, rlVars, sessVars, gwVars, ticks>>

github_auth(p) == github_auth_on(p, 1)

\* The error parameter of a callback: none, or the error code the provider
\* sends when the user denies the authorization.
OAuthErrors == {None, "access_denied"}

\* (mutation of ErrorDetail: the provider's error is left out of the message)
ErrorDetail_mut(error) == "GitHub authorization failed"

\* line 320: f"GitHub authorization failed: {error}"
ErrorDetail(error) == "GitHub authorization failed: " \o error

\* What a browser can put into the state parameter: nothing, a string
\* github_auth never issued (0), or a state github_auth issued.
StateParams == {NoState} \cup (0..MaxStates)

\* github_callback, lines 317-338: the provider error, the missing parameter
\* and the state check, then the state is deleted and complete_github_auth
\* called; no suspension point before the first await of the exchange.
github_callback_on(p, i, error, code, state) ==
    /\ req[p].pc = "idle"
    /\ state \in {NoState, 0} \/ state \in DOMAIN sage
    /\ LET f == [IdleFrame EXCEPT !.h = "github_callback", !.st = state,
                    !.err = error,
                    !.held = state \in StatesAt(i),
                    !.stale = state \in DOMAIN sage
                              /\ sage[state] >= OAUTH_STATE_EXPIRY_SECONDS] IN
       IF \/ Truthy(error) \/ ~code \/ state = NoState
          \/ ~state_held(StatesAt(i), state)
       THEN /\ req' = [req EXCEPT ![p] = Respond([f EXCEPT !.detail =
                          IF Truthy(error) THEN ErrorDetail(error)
                          ELSE IF ~code \/ state = NoState
                               THEN "Missing authorization code or state"
                               ELSE "Invalid OAuth state"], 400)]
            /\ UNCHANGED <<oauth_states, peer_states, accepted>>
       ELSE /\ SetStatesAt(i, consumed(StatesAt(i), state))
            /\ accepted' = [accepted EXCEPT ![state] = Min(@ + 1, 2)]
            /\ req' = [req EXCEPT ![p] = [f EXCEPT !.pc = "g_exchange",
                          !.trace = <<"state", "exchange">>]]
    /\ UNCHANGED <<nextState, sage>>
    /\ UNCHANGED <<tokVars, rlVars, sessVars, gwVars, ticks>>

github_callback(p, error, code, state) ==
    github_callback_on(p, 1, error, code, state)

\* (mutation of StopFlow: the step that gave nothing is made again)
StopFlow_mut(f, step) == [f EXCEPT !.failed = step]

\* complete_github_auth returns None at once when a step gave nothing (lines
\* 257-258, 262-263, 270-272) and the callback answers 500 (routes.py lines
\* 340-344).
StopFlow(f, step) ==
    Respond([f EXCEPT !.failed = step,
                      !.detail = "Failed to authenticate with GitHub"], 500)

\* complete_github_auth, lines 256-258: exchange_code_for_token; without an
\* access token the callback answers 500 (routes.py lines 340-344).
github_callback_exchange(p) ==
    /\ req[p].pc = "g_exchange"
    /\ \/ req' = [req EXCEPT ![p].pc = "g_user", ![p].trace = Append(@, "profile")]
       \/ req' = [req EXCEPT ![p] = StopFlow(@, "exchange")]
    /\ UNCHANGED <<tokVars, rlVars, sessVars, oauthVars, gwVars, ticks>>

\* lines 261-268, 346-350: get_github_user; a profile with an email goes on to
\* the resolver, one without to get_github_primary_email.
github_callback_user(p) ==
    /\ req[p].pc = "g_user"
    /\ \/ req' = [req EXCEPT ![p] = EnterResolver(@, "a@x.io")]
       \/ req' = [req EXCEPT ![p].pc = "g_email", ![p].trace = Append(@, "email")]
       \/ req' = [req EXCEPT ![p] = StopFlow(@, "profile")]
    /\ UNCHANGED <<tokVars, rlVars, sessVars, oauthVars, gwVars, ticks>>

\* lines 268-272: get_github_primary_email; without an email, None.
github_callback_email(p) ==
    /\ req[p].pc = "g_email"
    /\ \/ req' = [req EXCEPT ![p] = EnterResolver(@, "a@x.io")]
       \/ req' = [req EXCEPT ![p] = StopFlow(@, "email")]
    /\ UNCHANGED <<tokVars, rlVars, sessVars, oauthVars, gwVars, ticks>>

\* routes.py lines 352-365: 500 without user_data or key, else create_session;
\* an exception of the resolver is not caught in the handler and becomes a 500.
github_callback_session(p) ==
    /\ req[p].h = "github_callback" /\ req[p].pc \in {"u_ret", "u_raise"}
    /\ \/ /\ ~resolved(req[p].udata, req[p].ukey)
          /\ req' = [req EXCEPT ![p] = Respond(@, 500)]
          /\ UNCHANGED nextSess
       \/ /\ resolved(req[p].udata, req[p].ukey)
          /\ req' = [req EXCEPT ![p] = EnterCreateSession(@, "Ann")]
          /\ nextSess' = Min(nextSess + 1, MaxSessions + 1)
    /\ UNCHANGED <<sessions, sreturned, delReturned, delDone>>
    /\ UNCHANGED <<tokVars, rlVars, oauthVars, gwVars, ticks>>

\* lines 368-378: the cookie and the redirect; an exception of create_session
\* is not caught in the handler and becomes a 500.
github_callback_respond(p) ==
    /\ req[p].h = "github_callback" /\ req[p].pc \in {"s_ret", "s_raise"}
    /\ req' = [req EXCEPT ![p] =
                  IF req[p].pc = "s_ret"
                  THEN Respond([@ EXCEPT !.cookie = req[p].tok], 302)
                  ELSE Respond(@, 500)]
    /\ UNCHANGED <<tokVars, rlVars, sessVars, oauthVars, gwVars, ticks>>

\* The session cookie of a request that carries none.
NoCookie == -1
\* What a browser can send as session cookie: nothing, a string that is no
\* session token (0), or a token create_session returned.
Cookies == {NoCookie} \cup (0..MaxSessions)
Sendable(c) == c = NoCookie \/ Callable(c)

\* The record the store holds for a session token, NoSess when it holds none.
RecordOf(c) == IF c \in DOMAIN sessions THEN session_of(sessions[c]) ELSE NoSess

\* (mutation of ProfileResponse: the name is left out)
ProfileResponse_mut(session) ==
    [email |-> session.email, user_id |-> session.user_id,
     virtual_key |-> session.virtual_key, name |-> None]

\* get_profile, lines 92-97: the four identity fields of the session.
ProfileResponse(session) ==
    [email |-> session.email, user_id |-> session.user_id,
     virtual_key |-> session.virtual_key, name |-> session.name]

\* get_profile, lines 84-97, with get_current_session (sessions.py lines
\* 217-222): 401 without a cookie; else get_session, whose None (no record,
\* or an exception of the store, sessions.py lines 115-117) gives 401.
get_profile(p, c) ==
    /\ req[p].pc = "idle"
    /\ Sendable(c)
    /\ LET f == [IdleFrame EXCEPT !.h = "get_profile", !.tok = c,
                    !.live = c \in DOMAIN sessions, !.srec = RecordOf(c)] IN
       \/ /\ c # NoCookie /\ c \in DOMAIN sessions
          /\ req' = [req EXCEPT ![p] = Respond(
                        [f EXCEPT !.sres = ProfileResponse(RecordOf(c))], 200)]
       \/ /\ c = NoCookie \/ c \notin DOMAIN sessions
          /\ req' = [req EXCEPT ![p] = Respond(
                        [f EXCEPT !.detail = "Not authenticated"], 401)]
       \/ /\ c # NoCookie
          /\ req' = [req EXCEPT ![p] = Respond(
                        [f EXCEPT !.detail = "Not authenticated",
                                  !.exc = TRUE], 401)]
    /\ UNCHANGED <<tokVars, rlVars, sessVars, oauthVars, gwVars, ticks>>

\* logout, lines 272-279: delete_session when there is a cookie, its result
\* dropped (an exception of the store ends inside delete_session, sessions.py
\* lines 139-141); then the cookie is cleared and success returned.
logout(p, c) ==
    /\ req[p].pc = "idle"
    /\ Sendable(c)
    /\ LET f == Respond([IdleFrame EXCEPT !.h = "logout", !.tok = c,
                           !.live = c \in DOMAIN sessions, !.cleared = TRUE,
                           !.detail = "Logged out successfully"], 200) IN
       \/ /\ c = NoCookie
          /\ req' = [req EXCEPT ![p] = f]
          /\ UNCHANGED <<sessions, delReturned, delDone>>
       \/ /\ c # NoCookie
          /\ sessions' = DropKey(sessions, c)
          /\ delDone' = delDone \cup {c}
          /\ delReturned' = delReturned \cup {c}
          /\ req' = [req EXCEPT ![p] = f]
       \/ /\ c # NoCookie
          /\ delReturned' = delReturned \cup {c}
          /\ req' = [req EXCEPT ![p] = [f EXCEPT !.exc = TRUE]]
          /\ UNCHANGED <<sessions, delDone>>
    /\ UNCHANGED <<nextSess, sreturned>>
    /\ UNCHANGED <<tokVars, rlVars, oauthVars, gwVars, ticks>>

\* The response has been sent; the process is free again.
HandlerReturn(p) ==
    /\ req[p].pc = "http_ret"
    /\ req' = [req EXCEPT ![p] = IdleFrame]
    /\ UNCHANGED <<tokVars, rlVars, sessVars, oauthVars, gwVars, ticks>>

\* The caller of a direct call takes the result; the process is free again.
CallReturn(p) ==
    /\ req[p].h \in {"create_token", "verify_token_call"}
    /\ req[p].pc \in {"c_ret", "v_ret"}
    /\ req' = [req EXCEPT ![p] = IdleFrame]
    /\ UNCHANGED <<tokVars, rlVars, sessVars, oauthVars, gwVars, ticks>>

TokSteps == {600, 900}

\* d seconds pass: the store drops the keys whose ttl has run out; the
\* in-process dict is left as it is.
Elapse(d) ==
    /\ sage' = [x \in DOMAIN sage |-> Min(sage[x] + d, OAUTH_STATE_EXPIRY_SECONDS)]
    /\ UNCHANGED <<oauth_states, peer_states, nextState, accepted, gwVars>>
    /\ magic' = ExpireKeys(magic, d)
    /\ tage' = [t \in DOMAIN tage |-> Min(tage[t] + d, TokenTTL)]
    /\ ctr' = ExpireKeys(ctr, d)
    /\ win' = [x \in DOMAIN win |-> WindowAfter(x, d)]
    /\ sessions' = ExpireKeys(sessions, d)
    /\ UNCHANGED <<req, nextToken, issued, vhist, rlFocus, rlfail>>
    /\ UNCHANGED <<nextSess, sreturned, delReturned, delDone>>

Tick(d) == Elapse(d) /\ UNCHANGED ticks

EmptyStores ==
    /\ req = [p \in Procs |-> IdleFrame]
    /\ magic = <<>>
    /\ nextToken = 1
    /\ issued = <<>>
    /\ tage = [t \in Tokens |-> 0]
    /\ vhist = [t \in Presentable |-> NoHist]
    /\ ctr = <<>>
    /\ win = <<>>
    /\ rlfail = {}
    /\ sessions = <<>>
    /\ nextSess = 1
    /\ sreturned = {}
    /\ delReturned = {}
    /\ delDone = {}
    /\ oauth_states = {}
    /\ peer_states = {}
    /\ nextState = 1
    /\ sage = <<>>
    /\ accepted = [x \in 0..MaxStates |-> 0]
    /\ nkeys = 0
    /\ ticks = 0

TokInit ==
    /\ EmptyStores
    /\ rlFocus = "default"
    /\ accounts = {}

TokNext ==
    \/ \E p \in Procs, inp \in TokInputs : create_magic_link_token(p, inp)
    \/ \E p \in Procs : create_magic_link_token_hset(p)
    \/ \E p \in Procs : create_magic_link_token_expire(p)
    \/ \E p \in Procs, t \in Presentable : verify_magic_link_token(p, t)
    \/ \E p \in Procs : verify_magic_link_token_hgetall(p)
    \/ \E p \in Procs : verify_magic_link_token_delete(p)
    \/ \E p \in Procs : CallReturn(p)
    \/ \E d \in TokSteps : Tick(d)

\* Concurrent callers of the token store.
SpecTok == TokInit /\ [][TokNext]_vars

TokNextSeq ==
    \/ \E p \in Procs, inp \in TokInputs : Quiet /\ create_magic_link_token(p, inp)
    \/ \E p \in Procs : create_magic_link_token_hset(p)
    \/ \E p \in Procs : create_magic_link_token_expire(p)
    \/ \E p \in Procs, t \in Presentable : Quiet /\ verify_magic_link_token(p, t)
    \/ \E p \in Procs : verify_magic_link_token_hgetall(p)
    \/ \E p \in Procs : verify_magic_link_token_delete(p)
    \/ \E p \in Procs : CallReturn(p)
    \/ \E d \in TokSteps : Tick(d)

SpecTokSeq == TokInit /\ [][TokNextSeq]_vars

RLReturn(p) ==
    /\ req[p].h = "check_rate_limit"
    /\ req[p].pc = "rl_ret"
    /\ req' = [req EXCEPT ![p] = IdleFrame]
    /\ UNCHANGED <<tokVars, rlVars, sessVars, oauthVars, gwVars, ticks>>

\* Half a window and a whole window of the action under test.
RLSteps == {WindowSeconds(rlFocus) \div 2, WindowSeconds(rlFocus)}

RLInit ==
    /\ EmptyStores
    /\ rlFocus \in RLActions
    /\ accounts = {}

RLNext ==
    \/ \E p \in Procs, c \in ClientIds : Quiet /\ check_rate_limit(p, rlFocus, c)
    \/ \E p \in Procs : check_rate_limit_incr(p)
    \/ \E p \in Procs : check_rate_limit_expire(p)
    \/ \E p \in Procs : check_rate_limit_ttl(p)
    \/ \E p \in Procs : RLReturn(p)
    \/ \E d \in RLSteps : Tick(d)

\* Sequential check_rate_limit calls on the counter of one action, with time
\* passing and store calls failing at any point of a call.
SpecRL == RLInit /\ [][RLNext]_vars

SessSteps == {SessionTTL \div 2, SessionTTL}

SessInit ==
    /\ EmptyStores
    /\ rlFocus = "default"
    /\ accounts = {}

SessNext ==
    \/ \E p \in Procs, inp \in SessInputs : create_session(p, inp)
    \/ \E p \in Procs : create_session_hset(p)
    \/ \E p \in Procs : create_session_expire(p)
    \/ \E p \in Procs, s \in 0..MaxSessions : get_session(p, s)
    \/ \E p \in Procs, s \in 0..MaxSessions : delete_session(p, s)
    \/ \E p \in Procs, s \in 0..MaxSessions : refresh_session(p, s)
    \/ \E p \in Procs : SessReturn(p)
    \/ \E d \in SessSteps : Tick(d)

\* The actions whose limits the concurrent runs exercise.
LimitActions == {"signup"}

LimitInit ==
    /\ EmptyStores
    /\ rlFocus \in LimitActions
    /\ accounts = {}

LimitNext ==
    \/ \E p \in Procs, request \in Requests :
          rate_limit(p, request, rlFocus, None)
    \/ \E p \in Procs : check_rate_limit_incr(p)
    \/ \E p \in Procs : check_rate_limit_expire(p)
    \/ \E p \in Procs : check_rate_limit_ttl(p)
    \/ \E p \in Procs : rate_limit_verdict(p)
    \/ \E p \in Procs : rate_limit_return(p)
    \/ \E d \in RLSteps : Tick(d)

\* Concurrent rate_limit calls on the client-address counter of one action,
\* with time passing and store calls failing at any point of a check.
SpecLimit == LimitInit /\ [][LimitNext]_vars

\* The emails of the requests: one address in lower and in upper case.
LimitEmails == {"a@x.io", "A@x.io"}

\* The counter of the email as earlier requests, made for it from other client
\* addresses in the last seconds, have left it: one below its maximum.
EmailKey == <<email_action("login"), "a@x.io">>
ByEmailInit ==
    /\ req = [p \in Procs |-> IdleFrame]
    /\ magic = <<>> /\ nextToken = 1 /\ issued = <<>>
    /\ tage = [t \in Tokens |-> 0]
    /\ vhist = [t \in Presentable |-> NoHist]
    /\ ctr = (EmailKey :> [count |-> MaxRequests(EmailKey[1]) - 1,
                           ttl |-> WindowSeconds(EmailKey[1])])
    /\ win = (EmailKey :> [open |-> TRUE, armed |-> TRUE, age |-> 0,
                           n |-> MaxRequests(EmailKey[1]) - 1])
    /\ rlfail = {}
    /\ sessions = <<>> /\ nextSess = 1 /\ sreturned = {}
    /\ delReturned = {} /\ delDone = {}
    /\ oauth_states = {} /\ peer_states = {} /\ nextState = 1 /\ sage = <<>>
    /\ accepted = [x \in 0..MaxStates |-> 0]
    /\ nkeys = 0 /\ ticks = 0
    /\ rlFocus = "login"
    /\ accounts = {}

ByEmailNext ==
    \/ \E p \in Procs, request \in Requests, email \in LimitEmails :
          Quiet /\ rate_limit_by_email(p, request, email, rlFocus)
    \/ \E p \in Procs : check_rate_limit_incr(p)
    \/ \E p \in Procs : check_rate_limit_expire(p)
    \/ \E p \in Procs : check_rate_limit_ttl(p)
    \/ \E p \in Procs : rate_limit_verdict(p)
    \/ \E p \in Procs : rate_limit_return(p)

\* rate_limit_by_email calls of one client, one at a time inside one window
\* of the two counters, with store calls failing at any point of a check.
SpecByEmail == ByEmailInit /\ [][ByEmailNext]_vars

\* Concurrent callers of the session store.
SpecSess == SessInit /\ [][SessNext]_vars

AuthSteps == {OAUTH_STATE_EXPIRY_SECONDS, SessionTTL}

\* At most MaxTicks time steps are taken in a run.
AuthTick(d) ==
    /\ ticks < MaxTicks
    /\ Elapse(d)
    /\ ticks' = ticks + 1

\* The account of the login request exists at the gateway or does not.
AuthInit ==
    /\ EmptyStores
    /\ rlFocus = "default"
    /\ accounts \in {{}, {generate_user_id(LoginBody.email)}}

AuthNext ==
    \/ \E p \in Procs : Quiet /\ signup(p)
    \/ \E p \in Procs : signup_token(p)
    \/ \E p \in Procs : signup_send(p)
    \/ \E p \in Procs : Quiet /\ login(p)
    \/ \E p \in Procs : login_token(p)
    \/ \E p \in Procs : login_send(p)
    \/ \E p \in Procs, t \in Presentable : Quiet /\ verify_token(p, t)
    \/ \E p \in Procs : verify_token_resolve(p)
    \/ \E p \in Procs : verify_token_session(p)
    \/ \E p \in Procs : verify_token_respond(p)
    \/ \E p \in Procs : Quiet /\ github_auth(p)
    \/ \E p \in Procs, error \in OAuthErrors, code \in BOOLEAN,
          state \in StateParams :
          Quiet /\ github_callback(p, error, code, state)
    \/ \E p \in Procs : github_callback_exchange(p)
    \/ \E p \in Procs : github_callback_user(p)
    \/ \E p \in Procs : github_callback_email(p)
    \/ \E p \in Procs : github_callback_session(p)
    \/ \E p \in Procs : github_callback_respond(p)
    \/ \E p \in Procs : get_or_create_user_key_get(p)
    \/ \E p \in Procs : get_or_create_user_key_key(p)
    \/ \E p \in Procs : get_or_create_user_key_create(p)
    \/ \E p \in Procs : get_or_create_user_key_reget(p)
    \/ \E p \in Procs : get_or_create_user_key_raise(p)
    \/ \E p \in Procs : create_magic_link_token_hset(p)
    \/ \E p \in Procs : create_magic_link_token_expire(p)
    \/ \E p \in Procs : verify_magic_link_token_hgetall(p)
    \/ \E p \in Procs : verify_magic_link_token_delete(p)
    \/ \E p \in Procs : create_session_hset(p)
    \/ \E p \in Procs : create_session_expire(p)
    \/ \E p \in Procs : HandlerReturn(p)
    \/ \E d \in AuthSteps : AuthTick(d)

\* Requests to the auth endpoints of one service process, one at a time.
SpecAuth == AuthInit /\ [][AuthNext]_vars

\* The account of the GitHub user exists at the gateway or does not.
OAuthInit ==
    /\ EmptyStores
    /\ rlFocus = "default"
    /\ accounts \in {{}, {generate_user_id("a@x.io")}}

OAuthNext ==
    \/ \E p \in Procs : github_auth(p)
    \/ \E p \in Procs, error \in OAuthErrors, code \in BOOLEAN,
          state \in StateParams :
          github_callback(p, error, code, state)
    \/ \E p \in Procs : github_callback_exchange(p)
    \/ \E p \in Procs : github_callback_user(p)
    \/ \E p \in Procs : github_callback_email(p)
    \/ \E p \in Procs : github_callback_session(p)
    \/ \E p \in Procs : github_callback_respond(p)
    \/ \E p \in Procs : get_or_create_user_key_get(p)
    \/ \E p \in Procs : get_or_create_user_key_key(p)
    \/ \E p \in Procs : get_or_create_user_key_create(p)
    \/ \E p \in Procs : get_or_create_user_key_reget(p)
    \/ \E p \in Procs : get_or_create_user_key_raise(p)
    \/ \E p \in Procs : create_session_hset(p)
    \/ \E p \in Procs : create_session_expire(p)
    \/ \E p \in Procs : HandlerReturn(p)
    \/ \E d \in AuthSteps : AuthTick(d)

\* Concurrent requests to the two GitHub OAuth endpoints of one service process.
SpecOAuth == OAuthInit /\ [][OAuthNext]_vars

MultiNext ==
    \/ \E p \in Procs, i \in Instances : github_auth_on(p, i)
    \/ \E p \in Procs, i \in Instances, error \in OAuthErrors,
          code \in BOOLEAN, state \in StateParams :
          github_callback_on(p, i, error, code, state)
    \/ \E p \in Procs : github_callback_exchange(p)
    \/ \E p \in Procs : github_callback_user(p)
    \/ \E p \in Procs : github_callback_email(p)
    \/ \E p \in Procs : github_callback_session(p)
    \/ \E p \in Procs : github_callback_respond(p)
    \/ \E p \in Procs : get_or_create_user_key_get(p)
    \/ \E p \in Procs : get_or_create_user_key_key(p)
    \/ \E p \in Procs : get_or_create_user_key_create(p)
    \/ \E p \in Procs : get_or_create_user_key_reget(p)
    \/ \E p \in Procs : get_or_create_user_key_raise(p)
    \/ \E p \in Procs : create_session_hset(p)
    \/ \E p \in Procs : create_session_expire(p)
    \/ \E p \in Procs : HandlerReturn(p)

\* Concurrent requests to the GitHub OAuth endpoints of two service instances
\* behind one load balancer, sharing the store and the gateway.
SpecMulti == OAuthInit /\ [][MultiNext]_vars

CookieNext ==
    \/ \E p \in Procs, inp \in SessInputs : create_session(p, inp)
    \/ \E p \in Procs : create_session_hset(p)
    \/ \E p \in Procs : create_session_expire(p)
    \/ \E p \in Procs : SessReturn(p)
    \/ \E p \in Procs, c \in Cookies : get_profile(p, c)
    \/ \E p \in Procs, c \in Cookies : logout(p, c)
    \/ \E p \in Procs : HandlerReturn(p)
    \/ \E d \in SessSteps : Tick(d)

\* An earlier signup has created the account of "a@x.io", or none has.
SignupInit ==
    /\ EmptyStores
    /\ rlFocus = "default"
    /\ accounts \in {{}, {generate_user_id("a@x.io")}}

SignupNext ==
    \/ \E p \in Procs, body \in SignupBodies : signup_as(p, body)
    \/ \E p \in Procs : signup_token(p)
    \/ \E p \in Procs : signup_send(p)
    \/ \E p \in Procs : get_or_create_user_key_get(p)
    \/ \E p \in Procs : get_or_create_user_key_key(p)
    \/ \E p \in Procs : get_or_create_user_key_create(p)
    \/ \E p \in Procs : get_or_create_user_key_reget(p)
    \/ \E p \in Procs : get_or_create_user_key_raise(p)
    \/ \E p \in Procs : create_magic_link_token_hset(p)
    \/ \E p \in Procs : create_magic_link_token_expire(p)
    \/ \E p \in Procs, t \in Presentable : verify_magic_link_token(p, t)
    \/ \E p \in Procs : verify_magic_link_token_hgetall(p)
    \/ \E p \in Procs : verify_magic_link_token_delete(p)
    \/ \E p \in Procs : CallReturn(p)
    \/ \E p \in Procs : HandlerReturn(p)
    \/ \E d \in TokSteps : Tick(d)

\* Concurrent signup requests for one email in either letter case, and
\* redemptions of the tokens they issue.
SpecSignup == SignupInit /\ [][SignupNext]_vars

\* Concurrent /me and /logout requests on sessions that create_session wrote.
SpecCookie == SessInit /\ [][CookieNext]_vars

\* The account of the internal user exists at the gateway or does not.
MwInit ==
    /\ EmptyStores
    /\ rlFocus = "default"
    /\ accounts \in {{}, {generate_user_id("a@x.io")}}

MwNext ==
    \/ \E p \in Procs, path \in Paths, xauth \in {None, "a@x.io"},
          xemail \in {None, "", "b@x.io"}, authz \in ClientAuthz :
          dispatch(p, path, xauth, xemail, authz)
    \/ \E p \in Procs : dispatch_inject(p)
    \/ \E p \in Procs : dispatch_return(p)
    \/ \E p \in Procs : get_or_create_user_key_get(p)
    \/ \E p \in Procs : get_or_create_user_key_key(p)
    \/ \E p \in Procs : get_or_create_user_key_create(p)
    \/ \E p \in Procs : get_or_create_user_key_reget(p)
    \/ \E p \in Procs : get_or_create_user_key_raise(p)

\* Concurrent requests through the identity middleware.
SpecMw == MwInit /\ [][MwNext]_vars

GwNext ==
    \/ \E p \in Procs, email \in ResolverEmails : get_or_create_user_key(p, email)
    \/ \E p \in Procs : get_or_create_user_key_get(p)
    \/ \E p \in Procs : get_or_create_user_key_key(p)
    \/ \E p \in Procs : get_or_create_user_key_create(p)
    \/ \E p \in Procs : get_or_create_user_key_reget(p)
    \/ \E p \in Procs : get_or_create_user_key_raise(p)
    \/ \E p \in Procs : get_or_create_user_key_return(p)

\* Concurrent get_or_create_user_key calls for one account.
SpecGw == MwInit /\ [][GwNext]_vars

(***************************************************************************)
(* Claims on the account resolver.                                         *)
(***************************************************************************)

\* C18: a key that get_or_create_user_key returns was generated by the
\* gateway during that call (keys are numbered in the order of generation),
\* whether the account was found or created by the call.
C18_KeyCreatedInThisCall ==
    \A p \in Procs :
        (req[p].pc = "u_ret" /\ req[p].ukey # 0)
        => req[p].keys0 < req[p].ukey /\ req[p].ukey <= nkeys

\* C18 witness: the resolver has returned a key for an account that it found,
\* the gateway having generated keys before the call.
C18_Witness ==
    \E p \in Procs :
        /\ req[p].h = "get_or_create_user_key" /\ req[p].pc = "u_ret"
        /\ req[p].lookup = "found" /\ req[p].udata
        /\ req[p].keys0 >= 1 /\ req[p].ukey > req[p].keys0

\* C19: a resolution that saw not-found and whose create_user the gateway
\* refused because the account had been created meanwhile still returns the
\* account and a key.
C19_DuplicateCreateRefetches ==
    \A p \in Procs :
        (req[p].pc = "u_ret" /\ req[p].lookup = "notfound" /\ req[p].dup)
        => req[p].udata /\ req[p].ukey # 0

\* C20: a get_user that ended in a transport or server error is not taken for
\* not-found: the resolver does not go on to create_user after it.
C20_LookupErrorIsNotNotFound ==
    \A p \in Procs :
        req[p].lookup = "error" => req[p].pc \notin {"u_create", "u_reget"}

(***************************************************************************)
(* Claims on the identity middleware.                                      *)
(***************************************************************************)

\* C14: when the resolver called for a request with an email header raised or
\* returned no key, the middleware has called call_next all the same, has made
\* no response of its own, and has left the Authorization header and
\* request.state as they came.
C14_FailOpenNoInjection ==
    \A p \in Procs :
        (/\ req[p].h = "dispatch" /\ req[p].pc = "mw_next"
         /\ req[p].trace # <<>>
         /\ (req[p].exc \/ req[p].ukey = 0))
        => /\ req[p].fwd
           /\ req[p].status = 0
           /\ req[p].authz = req[p].inauth
           /\ req[p].ctx = NoCtx

\* C14 witness: a request with an email header and an Authorization of its own
\* has been forwarded unchanged after the resolver raised.
C14_Witness ==
    \E p \in Procs :
        /\ req[p].h = "dispatch" /\ req[p].pc = "mw_next"
        /\ req[p].email = "a@x.io" /\ req[p].exc
        /\ req[p].inauth = Bearer(0) /\ req[p].authz = Bearer(0)
        /\ req[p].fwd

\* C15: when the resolver returned a key for a request with an email header on
\* a path that is not allow-listed, the request given to call_next carries
\* Authorization "Bearer <that key>" instead of the client's, and
\* request.state holds the account data and the email.
C15_InjectsCredentialAndAccount ==
    \A p \in Procs :
        (/\ req[p].h = "dispatch" /\ req[p].pc = "mw_next"
         /\ req[p].ukey # 0)
        => /\ req[p].authz = Bearer(req[p].ukey)
           /\ req[p].ctx.orizon_user
           /\ req[p].ctx.orizon_email = req[p].email

HandlerMutates ==
    /\ ticks' = ticks
    /\ \/ magic' # magic
       \/ sessions' # sessions
       \/ accounts' # accounts
       \/ nkeys' # nkeys
       \/ oauth_states' # oauth_states /\ oauth_states' \subseteq oauth_states

\* C6: a signup, login, verify or OAuth-callback request performs a
\* state-mutating step only after a rate-limiter check has run for it, that
\* is after the limiter's counter has been incremented (or the check has
\* failed open on a store error).
C6_GatedBeforeMutation ==
    [][HandlerMutates => (DOMAIN ctr \cup rlfail) # {}]_vars

\* C7: a callback whose state the dict does not hold on arrival (never issued,
\* already consumed, or absent) is answered 400 at once: it starts no token
\* exchange and no account resolution, creates no session, sets no cookie.
C7_UnknownStateRejected ==
    \A p \in Procs :
        (req[p].h = "github_callback" /\ ~req[p].held)
        => /\ req[p].pc = "http_ret"
           /\ req[p].status = 400
           /\ req[p].trace = <<>>
           /\ req[p].email = None
           /\ req[p].sinp = NoSess
           /\ req[p].cookie = 0

\* C7 witness: a callback replaying a state that an earlier callback consumed
\* has been answered 400 "Invalid OAuth state".
C7_Witness ==
    \E p \in Procs :
        /\ req[p].h = "github_callback" /\ req[p].pc = "http_ret"
        /\ req[p].st \in DOMAIN sage /\ accepted[req[p].st] = 1
        /\ ~req[p].held
        /\ req[p].status = 400 /\ req[p].detail = "Invalid OAuth state"

\* C8: each issued state passes the check of at most one callback, also among
\* concurrently interleaved callbacks, and once it has passed it is no longer
\* in the dict, so every other callback carrying it is rejected.
C8_StateAcceptedOnce ==
    \A state \in DOMAIN sage :
        /\ accepted[state] <= 1
        /\ accepted[state] = 1 => state \notin oauth_states
        /\ \A p, q \in Procs :
            (/\ p # q
             /\ req[p].h = "github_callback" /\ req[q].h = "github_callback"
             /\ req[p].st = state /\ req[q].st = state)
            => req[p].trace = <<>> \/ req[q].trace = <<>>

\* C8 witness: while the callback that consumed a state is still in flight,
\* a concurrent callback carrying the same state has been rejected as invalid.
C8_Witness ==
    \E p, q \in Procs :
        /\ req[p].h = "github_callback" /\ req[p].st \in DOMAIN sage
        /\ req[p].pc \in {"g_exchange", "g_user", "g_email", "u_get", "s_hset"}
        /\ req[q].h = "github_callback" /\ req[q].st = req[p].st
        /\ req[q].pc = "http_ret" /\ req[q].status = 400
        /\ req[q].detail = "Invalid OAuth state"

\* C9: a callback carrying a state that github_auth issued 10 minutes or more
\* before is rejected with 400.
C9_StaleStateRejected ==
    \A p \in Procs :
        (req[p].h = "github_callback" /\ req[p].stale) => req[p].status = 400

\* C11: whenever logout has answered success to a request that carried the
\* session cookie s, the record of s is gone from the store and the cookie
\* has been cleared.
C11_LogoutDestroysSession ==
    \A p \in Procs :
        (/\ req[p].h = "logout" /\ req[p].pc = "http_ret"
         /\ req[p].status = 200 /\ req[p].tok # NoCookie)
        => /\ req[p].tok \notin DOMAIN sessions
           /\ req[p].cleared

\* C12 as stated: /me answers 401 when the request has no cookie or its cookie
\* is no live session, and otherwise answers with exactly the four fields of
\* the stored record.
C12_ProfileOrUnauthenticated ==
    \A p \in Procs :
        (req[p].h = "get_profile" /\ req[p].pc = "http_ret")
        => IF req[p].tok = NoCookie \/ ~req[p].live
           THEN req[p].status = 401 /\ req[p].sres = NoSess
           ELSE req[p].status = 200 /\ req[p].sres = req[p].srec

\* C12 amended: /me answers 401 when the request has no cookie, when its cookie
\* is no live session and when the store read raised; otherwise it answers
\* with exactly the four fields of the stored record.
C12_ProfileOrUnauthenticated_Amended ==
    \A p \in Procs :
        (req[p].h = "get_profile" /\ req[p].pc = "http_ret")
        => IF req[p].tok = NoCookie \/ ~req[p].live \/ req[p].exc
           THEN req[p].status = 401 /\ req[p].sres = NoSess
           ELSE req[p].status = 200 /\ req[p].sres = req[p].srec

\* C12 witness: /me has answered 200 with the record of a live session that
\* carries a name.
C12_Witness ==
    \E p \in Procs :
        /\ req[p].h = "get_profile" /\ req[p].pc = "http_ret"
        /\ req[p].live /\ req[p].status = 200
        /\ req[p].sres.name = "Ann" /\ req[p].sres.virtual_key = 1

InTrace(f, step) == \E i \in DOMAIN f.trace : f.trace[i] = step
ResolverPcs == {"u_get", "u_key", "u_create", "u_reget", "u_ret", "u_raise"}
\* The resolver of the request has ended, and this is what it gave.
ResolverEnded(f) == InTrace(f, "resolve") /\ f.pc \notin ResolverPcs

\* C17: in verify and in the OAuth callback, when the resolver gave no account
\* or no key (or raised) the response is 500, create_session is not called
\* and no cookie is set; in signup, when the resolver gave no account the
\* response is 500 and no magic-link token is created or emailed.
C17_ExternalFlowsFailClosed ==
    \A p \in Procs :
        /\ (/\ req[p].h \in {"verify_token", "github_callback"}
            /\ ResolverEnded(req[p])
            /\ ~(req[p].udata /\ req[p].ukey # 0))
           => /\ req[p].pc = "http_ret" /\ req[p].status = 500
              /\ ~InTrace(req[p], "session")
              /\ req[p].sinp = NoSess
              /\ req[p].cookie = 0
        /\ (/\ req[p].h = "signup"
            /\ ResolverEnded(req[p])
            /\ ~req[p].udata)
           => /\ req[p].pc = "http_ret" /\ req[p].status = 500
              /\ ~InTrace(req[p], "token")
              /\ req[p].tok = 0
              /\ ~req[p].sent

\* C17 witness: verify has answered 500 for a redeemed token whose account
\* was found while the gateway generated no key for it.
C17_Witness ==
    \E p \in Procs :
        /\ req[p].h = "verify_token" /\ req[p].pc = "http_ret"
        /\ req[p].tres.ok /\ req[p].udata /\ req[p].ukey = 0
        /\ req[p].status = 500 /\ req[p].cookie = 0

\* C22: generate_user_id gives an email and its lower-cased form the same id,
\* and a successful signup answers with the id of its email, the one its
\* account has at the gateway: signups for "a@x.io" and "A@x.io" get one id.
C22_UserIdOfLowercasedEmail ==
    /\ \A e \in {"a@x.io", "A@x.io", "b@x.io", "B@x.io"} :
          generate_user_id(e) = generate_user_id(lower(e))
    /\ \A p \in Procs :
          (req[p].h = "signup" /\ req[p].pc = "http_ret" /\ req[p].status = 200)
          => /\ req[p].body.user_id = generate_user_id(req[p].inp.email)
             /\ req[p].body.user_id = generate_user_id("a@x.io")
             /\ req[p].body.user_id \in accounts

\* C22 witness: a signup for "A@x.io" has found the account that exists for
\* "a@x.io" and has answered with its id.
C22_Witness ==
    \E p \in Procs :
        /\ req[p].h = "signup" /\ req[p].pc = "http_ret" /\ req[p].status = 200
        /\ req[p].inp.email = "A@x.io" /\ req[p].lookup = "found"
        /\ req[p].body.user_id = generate_user_id("a@x.io")
        /\ accounts = {generate_user_id("a@x.io")}

\* The response of a request as the client sees it.
ResponseOf(f) == [status |-> f.status, body |-> f.body, detail |-> f.detail,
                  cookie |-> f.cookie]

\* C23: verify answers a token that was never issued, one that was redeemed
\* before and one that has expired with one and the same response: 400 and
\* "Invalid or expired magic link", no cookie.
C23_VerifyFailureUniform ==
    \A p \in Procs :
        (req[p].h = "verify_token" /\ req[p].pc = "http_ret" /\ ~req[p].tres.ok)
        => ResponseOf(req[p]) =
              [status |-> 400, body |-> NoBody,
               detail |-> "Invalid or expired magic link", cookie |-> 0]

\* C23 witness: verify has answered 400 for a token that was written with its
\* expiry, was never redeemed and is 15 minutes old.
C23_Witness ==
    \E p \in Procs :
        LET t == req[p].tok IN
        /\ req[p].h = "verify_token" /\ req[p].pc = "http_ret"
        /\ t \in DOMAIN issued /\ issued[t].written = "full"
        /\ vhist[t].redeemed = 0 /\ ~vhist[t].vfail
        /\ tage[t] >= TokenTTL
        /\ req[p].status = 400

\* A step of the login request of process p.
LoginStep(p) ==
    /\ req[p].h = "login" \/ req'[p].h = "login"
    /\ req'[p] # req[p]

C30_EmailFailureKeepsOutcome ==
    [][\A p \in Procs :
        (req'[p].h = "signup" /\ req'[p].pc = "http_ret"
         /\ InTrace(req'[p], "send") /\ ~req'[p].sent)
        => LET t == req'[p].tok IN
           /\ ResponseOf(req'[p]) =
                 [status |-> 200, detail |-> None, cookie |-> 0,
                  body |-> [success |-> TRUE,
                            message |-> "Check your email for the magic link",
                            user_id |-> generate_user_id(req'[p].inp.email)]]
           /\ req[p].pc = "c_ret" => magic' = magic /\ issued' = issued
           /\ (/\ issued'[t].written = "full" /\ vhist'[t].redeemed = 0
               /\ tage'[t] < TokenTTL)
              => /\ t \in DOMAIN magic'
                 /\ decode_token_data(magic'[t]) = Meta(req'[p].inp)]_vars

\* C30 witness: a signup whose email was not sent has answered 200 with the
\* account id, and a verify of its token has returned the data of the signup.
C30_Witness ==
    \E p, q \in Procs :
        /\ req[p].h = "signup" /\ req[p].pc = "http_ret"
        /\ ~req[p].sent /\ req[p].status = 200
        /\ req[p].body.user_id = generate_user_id(req[p].inp.email)
        /\ req[q].h = "verify_token_call" /\ req[q].pc = "v_ret"
        /\ req[q].tok = req[p].tok
        /\ req[q].tres.ok /\ req[q].tres.email = req[p].inp.email

C10_DeletedStaysGone ==
    /\ \A s \in delReturned : s \notin DOMAIN sessions
    /\ \A p \in Procs :
        (req[p].h = "get_session" /\ req[p].afterRet) => req[p].sres = NoSess

\* C10 amended: after a delete_session(s) whose store call did not raise has
\* returned, s is not in the store and every get_session(s) started later
\* returns None, whatever refresh_session, create_session or time do later.
C10_DeletedStaysGone_Amended ==
    /\ \A s \in delDone : s \notin DOMAIN sessions
    /\ \A p \in Procs :
        (req[p].h = "get_session" /\ req[p].afterDone) => req[p].sres = NoSess

\* C10 witness: get_session has returned None for a session that
\* create_session had returned and a delete_session then removed, while a
\* refresh_session on it is in the act of returning.
C10_Witness ==
    \E p, q \in Procs :
        /\ req[p].h = "get_session" /\ req[p].pc = "s_ret"
        /\ req[p].tok \in sreturned /\ req[p].afterDone
        /\ ~req[p].exc /\ req[p].sres = NoSess
        /\ req[q].h = "refresh_session" /\ req[q].pc = "s_ret"
        /\ req[q].tok = req[p].tok /\ ~req[q].exc

(***************************************************************************)
(* Claims on the token store.                                              *)
(***************************************************************************)

\* C1: among any number of concurrently interleaved verify_magic_link_token
\* calls on one token, at most one returns the token's metadata.
C1_AtMostOneRedemption == \A t \in Tokens : vhist[t].redeemed <= 1

VerifyReturns(p) ==
    /\ req[p].h = "verify_token_call"
    /\ req[p].pc # "v_ret"
    /\ req'[p].pc = "v_ret"

\* C2: for a token whose store writes both succeeded, with sequential callers
\* and no store call of a verify raising, the first verify_magic_link_token
\* within the 15 minutes returns the stored metadata and every later one
\* returns None.
C2_FirstVerifyThenNone ==
    [][\A p \in Procs :
        LET t == req[p].tok IN
        (/\ VerifyReturns(p)
         /\ t \in DOMAIN issued
         /\ issued[t].written = "full"
         /\ ~vhist'[t].vfail)
        => IF vhist[t].done
           THEN req'[p].tres = NoData
           ELSE (tage[t] < TokenTTL => req'[p].tres = Meta(issued[t].inp))]_vars

\* C2 witness: a second verify has returned None for a signup token that the
\* first verify redeemed, still inside the token's 15 minutes.
C2_Witness ==
    \E p \in Procs :
        LET t == req[p].tok IN
        /\ req[p].h = "verify_token_call" /\ req[p].pc = "v_ret"
        /\ t \in DOMAIN issued
        /\ issued[t].written = "full" /\ issued[t].inp.is_signup
        /\ vhist[t].redeemed = 1 /\ ~vhist[t].vfail
        /\ tage[t] < TokenTTL
        /\ req[p].tres = NoData

\* C3: once create_magic_link_token has returned, a token record in the store
\* has an expiry of at most 15 minutes from its creation, so none outlives
\* its 15 minutes, whatever store call failed.
C3_EveryTokenExpires ==
    \A t \in DOMAIN issued :
        t \in DOMAIN magic =>
            /\ magic[t].ttl # -1
            /\ magic[t].ttl + tage[t] <= TokenTTL


(***************************************************************************)
(* Claims on the rate limiter.                                             *)
(***************************************************************************)

\* C4: with no store call failing, a check that is the k-th of its window
\* returns allowed=true when k <= max and allowed=false when k > max, for
\* every configured action.
C4_FirstMaxAllowed ==
    \A p \in Procs :
        (/\ req[p].h = "check_rate_limit"
         /\ req[p].pc = "rl_ret"
         /\ req[p].key \notin rlfail)
        => /\ req[p].k >= 1
           /\ req[p].rl.allowed <=> (req[p].k <= MaxRequests(req[p].key[1]))

\* C4 witness: the 31st check of a window of the default action (max 30) has
\* returned allowed=false, no store call having failed.
C4_Witness ==
    \E p \in Procs :
        /\ req[p].h = "check_rate_limit" /\ req[p].pc = "rl_ret"
        /\ req[p].key[1] = "default" /\ req[p].key \notin rlfail
        /\ req[p].k = MaxRequests("default") + 1
        /\ ~req[p].rl.allowed

\* C21: a check_rate_limit call in which a store call raised returns
\* allowed=true with remaining = the action's max and reset_seconds = 0,
\* whatever the counter was, and rate_limit raises no 429 after it.
C21_StoreErrorFailsOpen ==
    \A p \in Procs :
        /\ (req[p].pc = "rl_ret" /\ req[p].exc)
           => req[p].rl = [allowed |-> TRUE,
                           remaining |-> MaxRequests(req[p].key[1]),
                           reset_seconds |-> 0]
        /\ \A i \in DOMAIN req[p].axes :
              req[p].axes[i].exc
              => /\ req[p].axes[i].allowed
                 /\ (i = Len(req[p].axes) => req[p].status # 429)

\* C21 witness: rate_limit has returned without a 429 for a request whose
\* INCR took the counter past the maximum and whose TTL call then raised.
C21_Witness ==
    \E p \in Procs :
        /\ req[p].h = "rate_limit" /\ req[p].pc = "rl_done"
        /\ req[p].axes[1].exc
        /\ req[p].axes[1].current > MaxRequests(req[p].key[1])
        /\ req[p].status = 0

\* C24: whenever rate_limit raises 429, no store call on the counter having
\* failed, the Retry-After it reports is strictly positive.
C24_RetryAfterPositive ==
    \A p \in Procs :
        (/\ req[p].h = "rate_limit" /\ req[p].pc = "http_ret"
         /\ req[p].status = 429 /\ req[p].key \notin rlfail)
        => req[p].retry > 0

\* The steps of the check of process p that follow an INCR which found the
\* counter of its key at or above the maximum.
OverLimitIncr(p) ==
    /\ req[p].pc = "rl_incr" /\ req'[p] # req[p]
    /\ req[p].key \in DOMAIN ctr
    /\ ctr[req[p].key].count >= MaxRequests(req[p].key[1])
OverLimitStep(p) ==
    /\ req[p].pc \in {"rl_expire", "rl_ttl"} /\ req'[p] # req[p]
    /\ req[p].current > MaxRequests(req[p].key[1])

\* What C25 says of such steps: the INCR adds exactly 1 and no step of the
\* check touches the expiry of the key; the check returns allowed=false.
OverLimitEffect(p) ==
    LET key == req[p].key IN
    /\ OverLimitIncr(p)
       => /\ key \in DOMAIN ctr'
          /\ ctr'[key].count = ctr[key].count + 1
          /\ ctr'[key].ttl = ctr[key].ttl
          /\ req'[p].pc # "rl_expire"
    /\ OverLimitStep(p) => ctr' = ctr
    /\ (OverLimitIncr(p) \/ OverLimitStep(p)) /\ req'[p].pc = "rl_ret"
       => ~req'[p].rl.allowed

\* C25 as stated: a request checked while the counter of its key is at or
\* above max is disallowed, increases the counter by exactly 1 and leaves the
\* expiry of the key unchanged.
C25_RejectedStillCounts ==
    [][\A p \in Procs : OverLimitEffect(p)]_vars

\* C25 amended: the same, for a check none of whose store calls raises (one
\* whose store call raises fails open: it is allowed, and when the INCR is
\* the call that raised the counter is not increased).
C25_RejectedStillCounts_Amended ==
    [][\A p \in Procs : ~req'[p].exc => OverLimitEffect(p)]_vars

\* C25 witness: the second request past the maximum has been rejected, its
\* count is in the counter, and the key still runs out with the window that
\* the first request opened.
C25_Witness ==
    \E p \in Procs :
        LET key == req[p].key IN
        /\ req[p].h = "rate_limit" /\ req[p].pc = "http_ret"
        /\ req[p].status = 429 /\ ~req[p].exc /\ key \notin rlfail
        /\ req[p].current = MaxRequests(key[1]) + 2
        /\ key \in DOMAIN ctr /\ ctr[key].count = req[p].current
        /\ ctr[key].ttl = WindowSeconds(key[1]) \div 2

\* C26: every counter key in the store has an expiry, except while the check
\* whose INCR created it is about to make its EXPIRE call; no interleaving
\* and no store failure leaves a counter without expiry.
C26_EveryCounterExpires ==
    \A key \in DOMAIN ctr :
        ctr[key].ttl = -1
        => \E p \in Procs : req[p].pc = "rl_expire" /\ req[p].key = key

\* The count of a key, 0 when the store has no such key.
CountOf(store, key) == IF key \in DOMAIN store THEN store[key].count ELSE 0

\* No increment is lost, and each call observes a count of its own: the INCR
\* of a call raises, or adds exactly 1 and gives the call the new count; the
\* count of a key changes by such a step and by the expiry of the key only.
CountsEveryCall ==
    /\ \A p \in Procs :
          (req[p].pc = "rl_incr" /\ req'[p] # req[p] /\ ~req'[p].exc)
          => /\ CountOf(ctr', req[p].key) = CountOf(ctr, req[p].key) + 1
             /\ req'[p].current = CountOf(ctr', req[p].key)
    /\ \A key \in DOMAIN ctr :
          \/ CountOf(ctr', key) = CountOf(ctr, key)
          \/ CountOf(ctr', key) = 0 /\ req' = req
          \/ /\ CountOf(ctr', key) = CountOf(ctr, key) + 1
             /\ \E p \in Procs : req[p].pc = "rl_incr" /\ req[p].key = key
                                  /\ req'[p].current = CountOf(ctr', key)

\* C27 as stated: under any interleaving of checks on one key every call
\* observes its own post-increment count and none is lost, and a call that
\* returns allowed=true is one of the first max of its window.
C27_AtMostMaxAllowed ==
    [][/\ CountsEveryCall
       /\ \A p \in Procs :
            (req'[p].pc = "rl_ret" /\ req'[p].rl.allowed)
            => /\ 1 <= req'[p].current
               /\ req'[p].current <= MaxRequests(req'[p].key[1])]_vars

\* C27 amended: the same for the calls none of whose store calls raises; on a
\* key on which no store call has raised, such a call that returns
\* allowed=true is one of the first max of the window.
C27_AtMostMaxAllowed_Amended ==
    [][/\ CountsEveryCall
       /\ \A p \in Procs :
            (req'[p].pc = "rl_ret" /\ req'[p].rl.allowed /\ ~req'[p].exc)
            => /\ 1 <= req'[p].current
               /\ req'[p].current <= MaxRequests(req'[p].key[1])
               /\ req'[p].key \notin rlfail'
                  => (1 <= req'[p].k /\ req'[p].k <= MaxRequests(req'[p].key[1]))]_vars

\* C27 witness: two checks on one key are under way at once, one having
\* counted max and the other max + 1, and the counter holds both.
C27_Witness ==
    \E p, q \in Procs :
        /\ p # q /\ req[p].key = req[q].key
        /\ req[p].pc = "rl_ttl" /\ req[q].pc = "rl_ttl"
        /\ req[p].current = MaxRequests(req[p].key[1])
        /\ req[q].current = MaxRequests(req[p].key[1]) + 1
        /\ CountOf(ctr, req[p].key) = req[q].current

\* What rate_limit_by_email does with the verdicts of its checks: it returns
\* only after the check on the client-address counter of the action and the
\* check on the counter of the lower-cased email have both allowed the
\* request, and raises 429 as soon as one of them does not; "a@x.io" and
\* "A@x.io" count on one key.
BothAxes(f) ==
    LET n == Len(f.axes) IN
    /\ f.pc = "rl_done"
       => n = 2 /\ f.axes[1].allowed /\ f.axes[2].allowed
    /\ \A i \in 1..n :
          ~f.axes[i].allowed => i = n /\ f.pc = "http_ret" /\ f.status = 429
    /\ n >= 1 => f.axes[1].key = <<rlFocus, "10.0.0.1">>
    /\ n = 2 => f.axes[2].key = <<rlFocus \o ":email", "a@x.io">>
    /\ f.status = 429 => n >= 1 /\ ~f.axes[n].allowed

\* C28 as stated: rate_limit_by_email lets a request through only if both
\* counters allow it and raises 429 if either counter is past its maximum;
\* emails that differ in letter case only share one counter.
C28_BothAxes ==
    \A p \in Procs :
        req[p].h = "rate_limit_by_email"
        => /\ BothAxes(req[p])
           /\ \A i \in DOMAIN req[p].axes :
                 req[p].axes[i].allowed
                 <=> req[p].axes[i].current
                        <= MaxRequests(req[p].axes[i].key[1])

\* C28 amended: the same, a counter past its maximum giving 429 when no
\* store call of its check raised (a check whose store call raises allows).
C28_BothAxes_Amended ==
    \A p \in Procs :
        req[p].h = "rate_limit_by_email"
        => /\ BothAxes(req[p])
           /\ \A i \in DOMAIN req[p].axes :
                 IF req[p].axes[i].exc THEN req[p].axes[i].allowed
                 ELSE req[p].axes[i].allowed
                      <=> req[p].axes[i].current
                             <= MaxRequests(req[p].axes[i].key[1])

\* C28 witness: a request for "A@x.io" that the client-address check allowed
\* has been answered 429 by the check on the email counter, which earlier
\* requests had taken past its maximum.
C28_Witness ==
    \E p \in Procs :
        /\ req[p].h = "rate_limit_by_email" /\ req[p].pc = "http_ret"
        /\ req[p].email = "A@x.io" /\ req[p].status = 429
        /\ Len(req[p].axes) = 2
        /\ req[p].axes[1].allowed /\ ~req[p].axes[2].allowed
        /\ ~req[p].axes[2].exc
        /\ req[p].axes[2].current > MaxRequests(req[p].axes[2].key[1])

\* C5: once window_seconds have passed since the first request of a window,
\* the counter is gone (so the next request counts 1 and is allowed): a
\* counter exists only while its window runs.
C5_WindowResets == \A key \in DOMAIN ctr : WindowOf(key).open

(***************************************************************************)
(* Claims on the magic-link flow as a whole.                               *)
(***************************************************************************)

\* C31: create_magic_link_token returns a token whatever the store does; a
\* token one of whose store writes failed is never redeemed (no verify returns
\* its data), and a signup or login whose token write failed still answers
\* 200 with success.
C31_FailedWriteNotRedeemable ==
    /\ \A p \in Procs : req[p].pc = "c_ret" => req[p].tok \in Tokens
    /\ \A t \in DOMAIN issued :
          issued[t].written # "full" => vhist[t].redeemed = 0
    /\ \A p \in Procs :
          (/\ req[p].h \in {"signup", "login"} /\ req[p].pc = "http_ret"
           /\ req[p].tok \in DOMAIN issued
           /\ issued[req[p].tok].written # "full")
          => req[p].status = 200 /\ req[p].body.success

\* C32: a verify request that read the data of its token and then failed
\* (no account, no key, or no session) has left the token in the store for a
\* retry, unless the token's 15 minutes have run out meanwhile.
C32_FailedVerifyKeepsToken ==
    \A p \in Procs :
        (/\ req[p].h = "verify_token" /\ req[p].pc = "http_ret"
         /\ req[p].tres.ok /\ req[p].status # 200)
        => \/ req[p].tok \in DOMAIN magic
           \/ tage[req[p].tok] >= TokenTTL

(***************************************************************************)
(* Claims on the OAuth callback.                                           *)
(***************************************************************************)

\* The place of a step in the order of the callback.
StepRank(step) ==
    CASE step = "state" -> 1
      [] step = "exchange" -> 2
      [] step = "profile" -> 3
      [] step = "email" -> 4
      [] step = "resolve" -> 5
      [] step = "session" -> 6

\* C33: the steps a callback has started are, in this order and each at most
\* once, state verification, token exchange, profile fetch, email resolution,
\* account resolution and session creation; when the exchange, the profile
\* fetch or the email resolution gave nothing, the callback has answered 500,
\* that step is the last it started, no account was resolved, no session was
\* created, no cookie set, and its state is out of the dict.
C33_CallbackStepsInOrder ==
    \A p \in Procs :
        req[p].h = "github_callback"
        => LET tr == req[p].trace IN
           /\ \A i \in 1..(Len(tr) - 1) : StepRank(tr[i]) < StepRank(tr[i + 1])
           /\ tr # <<>> => Len(tr) >= 2 /\ tr[1] = "state" /\ tr[2] = "exchange"
           /\ InTrace(req[p], "resolve") => InTrace(req[p], "profile")
           /\ InTrace(req[p], "session") => InTrace(req[p], "resolve")
           /\ req[p].failed # None
              => /\ req[p].pc = "http_ret" /\ req[p].status = 500
                 /\ tr[Len(tr)] = req[p].failed
                 /\ req[p].email = None
                 /\ req[p].sinp = NoSess /\ req[p].tok = 0
                 /\ req[p].cookie = 0
                 /\ req[p].st \notin oauth_states

\* C33 witness: a callback whose state was accepted has answered 500 after
\* the provider gave a profile without an email and no verified email; its
\* state is consumed and the store holds no session.
C33_Witness ==
    \E p \in Procs :
        /\ req[p].h = "github_callback" /\ req[p].pc = "http_ret"
        /\ req[p].failed = "email" /\ req[p].status = 500
        /\ req[p].trace = <<"state", "exchange", "profile", "email">>
        /\ accepted[req[p].st] = 1 /\ req[p].st \notin oauth_states
        /\ sessions = <<>>

\* C34: a callback that carries a provider error is answered 400 with the
\* error in the message in the step that receives it, whatever code and state
\* it carries: the step leaves the dict of states as it is, no step of the
\* flow (state check, provider calls, account resolution, session creation)
\* is started for it, and the gateway and the session store are not touched.
C34_ProviderErrorRejected ==
    [][\A p \in Procs :
        (/\ req[p].pc = "idle" /\ req'[p].h = "github_callback"
         /\ req'[p].err \notin {None, ""})
        => /\ req'[p].pc = "http_ret" /\ req'[p].status = 400
           /\ req'[p].detail = "GitHub authorization failed: " \o req'[p].err
           /\ oauth_states' = oauth_states /\ accepted' = accepted
           /\ req'[p].trace = <<>> /\ req'[p].failed = None
           /\ req'[p].email = None /\ req'[p].sinp = NoSess
           /\ req'[p].cookie = 0
           /\ accounts' = accounts /\ nkeys' = nkeys
           /\ sessions' = sessions /\ nextSess' = nextSess]_vars

\* C34 witness: a callback with error=access_denied, a code and a state that
\* the dict holds has been answered 400, and the dict still holds the state.
C34_Witness ==
    \E p \in Procs :
        /\ req[p].h = "github_callback" /\ req[p].pc = "http_ret"
        /\ req[p].err = "access_denied" /\ req[p].status = 400
        /\ req[p].st \in DOMAIN sage /\ req[p].held
        /\ req[p].st \in oauth_states /\ accepted[req[p].st] = 0

(***************************************************************************)
(* Further claims on the session store.                                    *)
(***************************************************************************)

\* What C35 says of the step a refresh_session(s) call makes: a record that
\* the store holds gets the full session ttl and keeps its fields, a session
\* the store does not hold gets no record and the call returns False; no
\* other record changes.
RefreshEffect(p) ==
    LET s == req'[p].tok IN
    /\ DOMAIN sessions' = DOMAIN sessions
    /\ \A x \in DOMAIN sessions \ {s} : sessions'[x] = sessions[x]
    /\ IF s \in DOMAIN sessions
       THEN /\ sessions'[s].ttl = SessionTTL
            /\ session_of(sessions'[s]) = session_of(sessions[s])
       ELSE ~req'[p].bres

\* C35 as stated: refresh_session on a live session sets its ttl back to the
\* full session ttl and leaves its fields unchanged; on an absent session it
\* returns False and creates no record.
C35_RefreshExtendsOnly ==
    [][\A p \in Procs :
        (req[p].pc = "idle" /\ req'[p].h = "refresh_session")
        => RefreshEffect(p)]_vars

\* C35 amended: the same when the store call does not raise; when it raises
\* the call returns False and the store is left as it was, the ttl of a live
\* session included.
C35_RefreshExtendsOnly_Amended ==
    [][\A p \in Procs :
        (req[p].pc = "idle" /\ req'[p].h = "refresh_session")
        => IF req'[p].exc THEN sessions' = sessions /\ ~req'[p].bres
           ELSE RefreshEffect(p)]_vars

\* C35 witness: refresh_session has returned True for a session with a name,
\* whose record has the full ttl and the fields create_session wrote.
C35_Witness ==
    \E p \in Procs :
        LET s == req[p].tok IN
        /\ req[p].h = "refresh_session" /\ req[p].pc = "s_ret"
        /\ req[p].bres /\ ~req[p].exc
        /\ s \in sreturned /\ s \in DOMAIN sessions
        /\ sessions[s].ttl = SessionTTL /\ sessions[s].name = "Ann"

\* C36: every session record in the store has an expiry of at most the
\* session ttl, except while the create_session call that wrote it is about
\* to make its EXPIRE call; a create_session that raises leaves no record
\* without expiry behind.
C36_EverySessionExpires ==
    \A s \in DOMAIN sessions :
        /\ sessions[s].ttl <= SessionTTL
        /\ sessions[s].ttl = -1
           => \E p \in Procs : req[p].pc = "s_expire" /\ req[p].tok = s

\* The request of process p, about to write the session record rec, is a
\* verify request that redeemed a token issued for the email of rec, or a
\* callback that consumed its state and got a profile with the email of rec;
\* and the key in rec is the one the gateway generated in this request.
CreatedBy(p, rec) ==
    /\ req[p].h \in {"verify_token", "github_callback"}
    /\ req[p].h = "verify_token"
       => /\ req[p].tres.ok /\ rec.email = req[p].tres.email
          /\ \E t \in DOMAIN issued :
                vhist[t].redeemed >= 1 /\ issued[t].inp.email = rec.email
    /\ req[p].h = "github_callback"
       => /\ accepted[req[p].st] >= 1 /\ req[p].st \notin oauth_states
          /\ InTrace(req[p], "profile") /\ rec.email = req[p].email
    /\ rec.virtual_key = req[p].ukey
    /\ req[p].keys0 < req[p].ukey /\ req[p].ukey <= nkeys

\* C37: a session record enters the store only by the hset of a verify
\* request that redeemed a token or of a callback that consumed a state, with
\* the email of that token or profile and the key the gateway generated in
\* that request; the fields of a record never change afterwards.
C37_SessionsComeFromLogins ==
    [][/\ \A s \in DOMAIN sessions' \ DOMAIN sessions :
             \E p \in Procs :
                /\ req[p].pc = "s_hset" /\ req[p].tok = s
                /\ req'[p].pc = "s_expire"
                /\ CreatedBy(p, session_of(sessions'[s]))
       /\ \A s \in DOMAIN sessions \cap DOMAIN sessions' :
             session_of(sessions'[s]) = session_of(sessions[s])]_vars

\* C37 witness: verify has answered 200 with the cookie of a session whose
\* record holds the email of the login token and the key generated for the
\* request, the gateway having generated a key before.
C37_Witness ==
    \E p \in Procs :
        LET s == req[p].cookie IN
        /\ req[p].h = "verify_token" /\ req[p].pc = "http_ret"
        /\ req[p].status = 200 /\ s \in DOMAIN sessions
        /\ sessions[s].email = "b@x.io" /\ req[p].tres.email = "b@x.io"
        /\ sessions[s].virtual_key = req[p].ukey
        /\ req[p].keys0 >= 1 /\ req[p].ukey > req[p].keys0

\* C38: a callback that carries a code and a state which some instance issued
\* less than 10 minutes ago is accepted, on whichever instance it arrives,
\* when no callback has consumed the state before, and is rejected with 400
\* on every instance when one has.
C38_StateSharedAcrossInstances ==
    [][\A p \in Procs :
        (/\ req[p].pc = "idle" /\ req'[p].h = "github_callback"
         /\ req'[p].err = None
         /\ req'[p].detail # "Missing authorization code or state"
         /\ req'[p].st \in DOMAIN sage)
        => LET state == req'[p].st IN
           /\ (accepted[state] = 0 /\ sage[state] < OAUTH_STATE_EXPIRY_SECONDS)
              => req'[p].pc = "g_exchange" /\ accepted'[state] = 1
           /\ accepted[state] >= 1
              => req'[p].pc = "http_ret" /\ req'[p].status = 400]_vars

(***************************************************************************)
(* Further claims on the account resolver and the rate limiter.            *)
(***************************************************************************)

\* C39: get_or_create_user_key returns an account and a key together or
\* neither: never an account without a key, never a key without an account.
C39_AccountAndKeyTogether ==
    \A p \in Procs :
        req[p].pc = "u_ret" => (req[p].udata <=> req[p].ukey # 0)

\* C40: the email counter of rate_limit_by_email has the limit of the action:
\* a request that is past the action's maximum among the requests for its
\* email in the window is answered 429, no store call of its check having
\* raised, whatever client addresses the requests came from.
C40_EmailAxisHasActionLimit ==
    \A p \in Procs :
        (/\ req[p].h = "rate_limit_by_email" /\ Len(req[p].axes) = 2
         /\ ~req[p].axes[1].exc /\ ~req[p].axes[2].exc
         /\ rlfail = {}
         /\ WindowOf(req[p].axes[2].key).open
         /\ req[p].axes[2].current > MaxRequests(rlFocus))
        => ~req[p].axes[2].allowed /\ req[p].status = 429

====
